---- MODULE Spec2Model ----
(***************************************************************************)
(* A model of the eth capability server of the sentry                      *)
(* (src/src/main.rs: BlockTracker and CapabilityServerImpl) together with  *)
(* the swarm that drives it and the downstream consumer that subscribes to *)
(* its two broadcast channels.                                             *)
(*                                                                         *)
(* Each handler of CapabilityServerImpl is one action.  The code of a      *)
(* handler is a pure operator over the current state that returns the new  *)
(* values of the fields it writes; the action assigns them.                *)
(***************************************************************************)
EXTENDS Naturals, Sequences, FiniteSets, TLC

\* ------------------------------------------------------------------ bounds
\* Outbound events on_peer_event may produce for one connection, where the
\* specification records them (SpecPipe).
MaxQueued == 2

\* The block numbers the BlockTracker specification sets are 0..MaxBlock.
MaxBlock == 3

\* The bytes of one coordinate of a public key (32 in secp256k1), and the
\* order of the field the model's curve is over (2^256 - 2^32 - 977 there).
CoordLen == 1
FieldOrder == 251

\* ------------------------------------------------------- program constants
\* channel(1): the depth of a peer's outbound queue.
ChannelCapacity == 1

\* s[0] = 4: the tag of an uncompressed public key.
TagUncompressed == 4

\* ------------------------------------------------------------- basic types
\* Option<T>
None == <<>>
Some(x) == <<x>>

\* devp2p::PeerId: the public keys of the remote peers of the model.
PeerIds == {"pk1", "pk2"}

\* keccak256 of the peer id: an injective map into PeerIdHash.
peer_id_hash_from_peer_id(id) ==
    CASE id = "pk1" -> "h1"
      [] id = "pk2" -> "h2"

PeerIdHashes == {peer_id_hash_from_peer_id(id) : id \in PeerIds}

\* Fork ids a remote Status may carry.
ForkIds == {"forkA", "forkB"}

\* FullStatusData {status, fork_filter}.  The fork filter is its current
\* fork id and the set of remote fork ids it validates.
FullStatusDatas ==
    { [status |-> [network_id |-> "net1"],
       fork_filter |-> [current |-> "forkA", accepts |-> {"forkA"}]],
      [status |-> [network_id |-> "net1"],
       fork_filter |-> [current |-> "forkB", accepts |-> {"forkA", "forkB"}]] }

\* fork_filter.validate(fork_id).is_ok()
fork_filter_validate(fork_filter, fork_id) == fork_id \in fork_filter.accepts

\* rlp::encode(&StatusMessage): the list of the message's fields.
rlp_encode(status_message_) ==
    << "status", status_message_.protocol_version, status_message_.network_id,
       status_message_.fork_id >>

\* rlp::decode::<StatusMessage>(&data): Ok(v) for a well-formed list, Err otherwise.
rlp_decode(data) ==
    IF Len(data) = 4 /\ data[1] = "status"
    THEN [ok |-> TRUE,
          v |-> [protocol_version |-> data[2], network_id |-> data[3],
                 fork_id |-> data[4]]]
    ELSE [ok |-> FALSE,
          v |-> [protocol_version |-> "-", network_id |-> "-", fork_id |-> "-"]]

\* EthMessageId::from_usize(id): the ids of the wire the capability knows.
from_usize(id) ==
    CASE id = 0 -> Some("Status")
      [] id = 1 -> Some("NewBlockHashes")
      [] OTHER -> None

\* EthMessageId::Status.to_usize().unwrap()
StatusId == CHOOSE id \in 0..1 : from_usize(id) = Some("Status")

\* sentry::MessageId::from(inbound_id): the id the downstream consumer sees.
sentry_MessageId_from(inbound_id) ==
    CASE inbound_id = "Status" -> "STATUS_66"
      [] inbound_id = "NewBlockHashes" -> "NEW_BLOCK_HASHES_66"

\* capability_name() and the version negotiated for it.
capability_name == "eth"
caps == [eth |-> "66"]

\* OutboundEvent
OutboundMessage(message) ==
    [type |-> "Message", capability_name |-> capability_name, message |-> message,
     reason |-> "-"]
OutboundDisconnect(reason) ==
    [type |-> "Disconnect", capability_name |-> "-",
     message |-> [id |-> 0, data |-> <<>>], reason |-> reason]

\* Result<Option<Message>, DisconnectReason>
Ok(value) == [tag |-> "Ok", value |-> value, reason |-> "-"]
Err(reason) == [tag |-> "Err", value |-> None, reason |-> reason]

\* The inbound messages a peer may send: a Status that does not decode, one
\* Status per fork id, a known message that is not Status, an unknown id.
InboundMessages ==
    { [id |-> 0, data |-> <<"junk">>] }
    \cup { [id |-> 0,
            data |-> rlp_encode([protocol_version |-> "66", network_id |-> "net1",
                                 fork_id |-> f])] : f \in ForkIds }
    \cup { [id |-> 1, data |-> <<"d1">>], [id |-> 99, data |-> <<"d1">>] }

\* Finite maps (HashMap, BTreeMap) are functions; these are insert and remove.
EmptyMap == [k \in {} |-> 0]
MapInsert(m, k, v) == [x \in DOMAIN m \cup {k} |-> IF x = k THEN v ELSE m[x]]
MapRemove(m, k) == [x \in DOMAIN m \ {k} |-> m[x]]

VARIABLES
    peer_pipes,              \* PeerIdHash -> Pipes [first, chan]
    block_tracker,           \* BlockTracker [block_by_peer, peers_by_block]
    status_message,          \* Option<FullStatusData>
    valid_peers,             \* set of PeerIdHash
    no_new_peers,            \* AtomicBool
    peer_id_cache,           \* PeerId -> PeerIdHash
    data_receivers,          \* data_sender has a receiver (a subscriber)
    peers_status_receivers,  \* peers_status_sender has a receiver
    data_sent,               \* the sends on data_sender of the step just taken
    peers_status_sent,       \* the sends on peers_status_sender of that step
    session,                 \* swarm: PeerId -> "idle" | "connected"
    pending,                 \* PeerId -> the event an on_peer_event waits to send
    panicked,                \* an assertion or unwrap of the server failed
    status_at_connect,       \* observer: PeerId -> "-" | "set" | "unset"
    status_seen,             \* observer: PeerId -> a Status came in this session
    queued,                  \* observer: PeerId -> events on_peer_event produced
    got,                     \* observer: PeerId -> events next returned
    last_reply,              \* observer: PeerId -> the last PeersReply event sent for it
    locks,                   \* lock -> [holders, mode, queue]
    threads,                 \* thread -> its position in a handler and its locals
    round_trip,              \* the keys of a peer id conversion: [pk, id, back]
    min_block                \* the last peers_with_min_block call: Option [block, peers]

server_vars == << peer_pipes, block_tracker, status_message, valid_peers,
                  no_new_peers, peer_id_cache >>
channel_vars == << data_receivers, peers_status_receivers, data_sent,
                   peers_status_sent >>
swarm_vars == << session, pending, panicked >>
handshake_observer == << status_at_connect, status_seen >>
pipe_observer == << queued, got >>
reply_observer == << last_reply >>
thread_vars == << locks, threads >>
peer_id_vars == << round_trip >>
query_vars == << min_block >>
\* What the specifications of whole handlers leave as it is.
aux_vars == << thread_vars, peer_id_vars, query_vars >>
vars == << server_vars, channel_vars, swarm_vars, handshake_observer, pipe_observer,
          reply_observer, aux_vars >>

\* --------------------------------------------------------------- BlockTracker
\* peers_by_block.entry(block).or_default().insert(peer)
BucketInsert(peers_by_block, block, peer) ==
    MapInsert(peers_by_block, block,
              (IF block \in DOMAIN peers_by_block THEN peers_by_block[block] ELSE {})
                  \cup {peer})

\* Mutant of BucketRemove: a bucket that became empty is kept.
BucketRemove_keeps_empty(peers_by_block, block, peer) ==
    IF block \in DOMAIN peers_by_block
    THEN MapInsert(peers_by_block, block, peers_by_block[block] \ {peer})
    ELSE peers_by_block

\* if let Entry::Occupied(entry) = peers_by_block.entry(block): remove the peer
\* from the bucket and drop the bucket when it became empty.
BucketRemove(peers_by_block, block, peer) ==
    IF block \in DOMAIN peers_by_block
    THEN IF peers_by_block[block] \ {peer} = {}
         THEN MapRemove(peers_by_block, block)
         ELSE MapInsert(peers_by_block, block, peers_by_block[block] \ {peer})
    ELSE peers_by_block

EmptyTracker == [block_by_peer |-> EmptyMap, peers_by_block |-> EmptyMap]

\* Mutant of set_block_number: an occupied entry takes the new block and the
\* peer stays in the bucket of the old one.
set_block_number_keeps_bucket(tracker, peer, block, force_create) ==
    IF peer \notin DOMAIN tracker.block_by_peer /\ ~force_create
    THEN tracker
    ELSE [block_by_peer |-> MapInsert(tracker.block_by_peer, peer, block),
          peers_by_block |-> BucketInsert(tracker.peers_by_block, block, peer)]

set_block_number(tracker, peer, block, force_create) ==
    IF peer \notin DOMAIN tracker.block_by_peer
    THEN IF force_create
         THEN [block_by_peer |-> MapInsert(tracker.block_by_peer, peer, block),
               peers_by_block |-> BucketInsert(tracker.peers_by_block, block, peer)]
         ELSE tracker
    ELSE LET old_block == tracker.block_by_peer[peer]
         IN [block_by_peer |-> MapInsert(tracker.block_by_peer, peer, block),
             peers_by_block |->
                 BucketInsert(BucketRemove(tracker.peers_by_block, old_block, peer),
                              block, peer)]

\* Mutant of peers_with_min_block: the range starts above block.
peers_with_min_block_above(tracker, block) ==
    UNION {tracker.peers_by_block[key] :
               key \in {k \in DOMAIN tracker.peers_by_block : k > block}}

\* The smallest key of a non-empty set of keys: where a BTreeMap range starts.
first_key(keys) == CHOOSE k \in keys : \A other \in keys : k <= other

\* .flat_map(|(_, v)| v).copied().collect(): the buckets of the keys, taken in
\* ascending key order, into one HashSet.
RECURSIVE flat_map_collect(_, _)
flat_map_collect(peers_by_block, keys) ==
    IF keys = {}
    THEN {}
    ELSE peers_by_block[first_key(keys)]
             \cup flat_map_collect(peers_by_block, keys \ {first_key(keys)})

\* self.peers_by_block.range(block..): the keys from block upwards.
peers_with_min_block(tracker, block) ==
    flat_map_collect(tracker.peers_by_block,
                     {k \in DOMAIN tracker.peers_by_block : k >= block})

remove_peer(tracker, peer) ==
    IF peer \in DOMAIN tracker.block_by_peer
    THEN [block_by_peer |-> MapRemove(tracker.block_by_peer, peer),
          peers_by_block |->
              BucketRemove(tracker.peers_by_block, tracker.block_by_peer[peer], peer)]
    ELSE tracker

\* ------------------------------------------------------- broadcast channels
\* BroadcastSender::send: Err when the channel has no receiver.  The record is
\* the send as the handler made it: the message and whether it was accepted.
broadcast_send(receivers, msg) == [msg |-> msg, ok |-> receivers]

PeersReply(peer, event) == [peer_id |-> peer, event |-> event]
InboundMessage(id, data, peer) == [id |-> id, data |-> data, peer_id |-> peer]

\* ------------------------------------------------------ CapabilityServerImpl
\* The pipes on_peer_connect builds: the stream yields first_events, then
\* whatever arrives on the channel.
Pipes(events) == [first |-> events, chan |-> <<>>]

\* Mutant of stream_next: the channel is drained before the first events.
stream_next_channel_first(p) ==
    IF p.chan # <<>>
    THEN [ready |-> TRUE, event |-> Head(p.chan), pipes |-> [p EXCEPT !.chan = Tail(@)]]
    ELSE IF p.first # <<>>
         THEN [ready |-> TRUE, event |-> Head(p.first),
               pipes |-> [p EXCEPT !.first = Tail(@)]]
         ELSE [ready |-> FALSE, event |-> [type |-> "-"], pipes |-> p]

\* The stream of the pipes, polled: for event in first_events { yield event },
\* then while let Some(event) = receiver.recv().await { yield event }.  It is
\* not ready when it holds nothing: the sender lives as long as the pipes.
stream_next(p) ==
    IF p.first # <<>>
    THEN [ready |-> TRUE, event |-> Head(p.first), pipes |-> [p EXCEPT !.first = Tail(@)]]
    ELSE IF p.chan # <<>>
         THEN [ready |-> TRUE, event |-> Head(p.chan),
               pipes |-> [p EXCEPT !.chan = Tail(@)]]
         ELSE [ready |-> FALSE, event |-> [type |-> "-"], pipes |-> p]

\* Mutant of channel_has_room: the channel never takes an event.
channel_has_room_never(p) == Len(p.chan) < 0

\* Sender::send(event).await on the bounded channel: it completes when the
\* channel has room and waits until then.
channel_has_room(p) == Len(p.chan) < ChannelCapacity
channel_send(p, event) == [p EXCEPT !.chan = Append(@, event)]

\* Mutant of setup_peer: the block number is set without force_create.
setup_peer_untracked(peer, p) ==
    [peer_pipes |-> MapInsert(peer_pipes, peer, p),
     block_tracker |-> set_block_number(block_tracker, peer, 0, FALSE),
     panicked |-> panicked \/ peer \in DOMAIN peer_pipes]

\* assert!(pipes.insert(peer, p).is_none()); set_block_number(peer, 0, true)
setup_peer(peer, p) ==
    [peer_pipes |-> MapInsert(peer_pipes, peer, p),
     block_tracker |-> set_block_number(block_tracker, peer, 0, TRUE),
     panicked |-> panicked \/ peer \in DOMAIN peer_pipes]

\* self.peer_pipes.read().get(&peer).map(|pipes| pipes.sender.clone()), on the
\* map as it is when the call is made: the handle is the key of the channel.
sender(pipes, peer) == IF peer \in DOMAIN pipes THEN Some(peer) ELSE None

\* self.peer_pipes.read().get(&peer).map(|pipes| pipes.receiver.clone())
receiver(pipes, peer) == IF peer \in DOMAIN pipes THEN Some(peer) ELSE None

\* Mutant of teardown_peer: the peer stays in the block tracker.
teardown_peer_keeps_tracker(peer) ==
    [peer_pipes |-> MapRemove(peer_pipes, peer),
     block_tracker |-> block_tracker,
     valid_peers |-> valid_peers \ {peer},
     peers_status_sent |->
         << broadcast_send(peers_status_receivers, PeersReply(peer, "Disconnect")) >>]

\* Mutant of teardown_peer: no PeersReply is sent.
teardown_peer_silent(peer) ==
    [peer_pipes |-> MapRemove(peer_pipes, peer),
     block_tracker |-> remove_peer(block_tracker, peer),
     valid_peers |-> valid_peers \ {peer},
     peers_status_sent |-> <<>>]

\* Mutant of teardown_peer: the peer stays in valid_peers.
teardown_peer_keeps_valid(peer) ==
    [peer_pipes |-> MapRemove(peer_pipes, peer),
     block_tracker |-> remove_peer(block_tracker, peer),
     valid_peers |-> valid_peers,
     peers_status_sent |->
         << broadcast_send(peers_status_receivers, PeersReply(peer, "Disconnect")) >>]

teardown_peer(peer) ==
    [peer_pipes |-> MapRemove(peer_pipes, peer),
     block_tracker |-> remove_peer(block_tracker, peer),
     valid_peers |-> valid_peers \ {peer},
     peers_status_sent |->
         << broadcast_send(peers_status_receivers, PeersReply(peer, "Disconnect")) >>]

all_peers == DOMAIN peer_pipes

connected_peers == Cardinality(valid_peers)

\* Mutant of set_status: no_new_peers is left as it is.
set_status_keeps_flag(message) ==
    [status_message |-> Some(message), no_new_peers |-> no_new_peers]

\* Mutant of set_status: the flag is flipped, not cleared.
set_status_flips_flag(message) ==
    [status_message |-> Some(message), no_new_peers |-> ~no_new_peers]

set_status(message) == [status_message |-> Some(message), no_new_peers |-> FALSE]

\* What handle_event leaves unchanged and sends nothing: the value it starts from.
Unchanged(result) ==
    [peer_pipes |-> peer_pipes, block_tracker |-> block_tracker,
     valid_peers |-> valid_peers, status_message |-> status_message,
     data_sent |-> <<>>, peers_status_sent |-> <<>>, result |-> result]

\* Mutant of handle_status: a Status that fails to decode is ignored.
handle_status_breach_ignored(peer, data) ==
    LET decoded == rlp_decode(data)
    IN IF ~decoded.ok \/ status_message = None
       THEN Unchanged(Ok(None))
       ELSE IF ~fork_filter_validate(status_message[1].fork_filter,
                                      decoded.v.fork_id)
            THEN Unchanged(Err("UselessPeer"))
            ELSE [Unchanged(Ok(None)) EXCEPT
                     !.valid_peers = valid_peers \cup {peer},
                     !.peers_status_sent =
                         << broadcast_send(peers_status_receivers,
                                           PeersReply(peer, "Connect")) >>]

\* Mutant of handle_status: the peer is inserted before its fork id is validated.
handle_status_insert_first(peer, data) ==
    LET decoded == rlp_decode(data)
    IN IF ~decoded.ok
       THEN Unchanged(Err("ProtocolBreach"))
       ELSE IF status_message = None
            THEN Unchanged(Ok(None))
            ELSE IF ~fork_filter_validate(status_message[1].fork_filter,
                                           decoded.v.fork_id)
                 THEN [Unchanged(Err("UselessPeer")) EXCEPT
                          !.valid_peers = valid_peers \cup {peer}]
                 ELSE [Unchanged(Ok(None)) EXCEPT
                          !.valid_peers = valid_peers \cup {peer},
                          !.peers_status_sent =
                              << broadcast_send(peers_status_receivers,
                                                PeersReply(peer, "Connect")) >>]

\* Mutant of handle_status: the Connect is sent only to a new member of valid_peers.
handle_status_connect_once(peer, data) ==
    LET decoded == rlp_decode(data)
    IN IF ~decoded.ok
       THEN Unchanged(Err("ProtocolBreach"))
       ELSE IF status_message = None
            THEN Unchanged(Ok(None))
            ELSE IF ~fork_filter_validate(status_message[1].fork_filter,
                                           decoded.v.fork_id)
                 THEN Unchanged(Err("UselessPeer"))
                 ELSE [Unchanged(Ok(None)) EXCEPT
                          !.valid_peers = valid_peers \cup {peer},
                          !.peers_status_sent =
                              IF peer \in valid_peers THEN <<>>
                              ELSE << broadcast_send(peers_status_receivers,
                                                     PeersReply(peer, "Connect")) >>]

\* InboundEvent::Message with a Status id
handle_status(peer, data) ==
    LET decoded == rlp_decode(data)
    IN IF ~decoded.ok
       THEN Unchanged(Err("ProtocolBreach"))
       ELSE IF status_message = None
            THEN Unchanged(Ok(None))
            ELSE IF ~fork_filter_validate(status_message[1].fork_filter,
                                           decoded.v.fork_id)
                 THEN Unchanged(Err("UselessPeer"))
                 ELSE [Unchanged(Ok(None)) EXCEPT
                          !.valid_peers = valid_peers \cup {peer},
                          !.peers_status_sent =
                              << broadcast_send(peers_status_receivers,
                                                PeersReply(peer, "Connect")) >>]

\* Mutant of handle_inbound: a failed send drops the message and nothing else.
handle_inbound_lossy(peer, inbound_id, data) ==
    LET sent == broadcast_send(data_receivers,
                               InboundMessage(sentry_MessageId_from(inbound_id),
                                              data, peer))
    IN [Unchanged(Ok(None)) EXCEPT !.data_sent = << sent >>]

\* Mutant of handle_inbound: the message is forwarded without the peer's data.
handle_inbound_no_data(peer, inbound_id, data) ==
    LET sent == broadcast_send(data_receivers,
                               InboundMessage(sentry_MessageId_from(inbound_id),
                                              <<>>, peer))
    IN IF ~sent.ok
       THEN [Unchanged(Err("ClientQuitting")) EXCEPT
                !.status_message = None, !.data_sent = << sent >>]
       ELSE [Unchanged(Ok(None)) EXCEPT !.data_sent = << sent >>]

\* InboundEvent::Message with another known id, from a valid peer
handle_inbound(peer, inbound_id, data) ==
    LET sent == broadcast_send(data_receivers,
                               InboundMessage(sentry_MessageId_from(inbound_id),
                                              data, peer))
    IN IF ~sent.ok
       THEN [Unchanged(Err("ClientQuitting")) EXCEPT
                !.status_message = None, !.data_sent = << sent >>]
       ELSE [Unchanged(Ok(None)) EXCEPT !.data_sent = << sent >>]

\* Mutant of handle_event: a Status that fails also tears the peer down.
handle_event_teardown_on_error(peer, event) ==
    LET t == teardown_peer(peer)
        torn == [Unchanged(Ok(None)) EXCEPT
                    !.peer_pipes = t.peer_pipes, !.block_tracker = t.block_tracker,
                    !.valid_peers = t.valid_peers,
                    !.peers_status_sent = t.peers_status_sent]
    IN IF event.type = "Disconnect"
       THEN torn
       ELSE LET valid_peer == peer \in valid_peers
                message_id == from_usize(event.message.id)
            IN CASE message_id = None -> Unchanged(Ok(None))
                 [] message_id = Some("Status") ->
                        IF handle_status(peer, event.message.data).result.tag = "Err"
                        THEN torn
                        ELSE handle_status(peer, event.message.data)
                 [] message_id # None /\ message_id # Some("Status") /\ valid_peer ->
                        handle_inbound(peer, message_id[1], event.message.data)
                 [] OTHER -> Unchanged(Ok(None))

\* Mutant of handle_event: a message that comes before the handshake is a breach.
handle_event_strict(peer, event) ==
    IF event.type = "Disconnect"
    THEN LET t == teardown_peer(peer)
         IN [Unchanged(Ok(None)) EXCEPT
                !.peer_pipes = t.peer_pipes, !.block_tracker = t.block_tracker,
                !.valid_peers = t.valid_peers,
                !.peers_status_sent = t.peers_status_sent]
    ELSE LET valid_peer == peer \in valid_peers
             message_id == from_usize(event.message.id)
         IN CASE message_id = None -> Unchanged(Ok(None))
              [] message_id = Some("Status") ->
                     handle_status(peer, event.message.data)
              [] message_id # None /\ message_id # Some("Status") /\ valid_peer ->
                     handle_inbound(peer, message_id[1], event.message.data)
              [] OTHER -> Unchanged(Err("ProtocolBreach"))

handle_event(peer, event) ==
    IF event.type = "Disconnect"
    THEN LET t == teardown_peer(peer)
         IN [Unchanged(Ok(None)) EXCEPT
                !.peer_pipes = t.peer_pipes, !.block_tracker = t.block_tracker,
                !.valid_peers = t.valid_peers,
                !.peers_status_sent = t.peers_status_sent]
    ELSE LET valid_peer == peer \in valid_peers
             message_id == from_usize(event.message.id)
         IN CASE message_id = None -> Unchanged(Ok(None))
              [] message_id = Some("Status") ->
                     handle_status(peer, event.message.data)
              [] message_id # None /\ message_id # Some("Status") /\ valid_peer ->
                     handle_inbound(peer, message_id[1], event.message.data)
              [] OTHER -> Unchanged(Ok(None))

\* get_hash: the cached hash, or the computed one, which it caches.
get_hash(p2p_peer_id) ==
    IF p2p_peer_id \in DOMAIN peer_id_cache
    THEN [hash |-> peer_id_cache[p2p_peer_id], peer_id_cache |-> peer_id_cache]
    ELSE [hash |-> peer_id_hash_from_peer_id(p2p_peer_id),
          peer_id_cache |->
              MapInsert(peer_id_cache, p2p_peer_id,
                        peer_id_hash_from_peer_id(p2p_peer_id))]

\* The first event of a connection: our Status, or a Disconnect when
\* FullStatusData is unset.
first_events ==
    IF status_message # None
    THEN << OutboundMessage(
               [id |-> StatusId,
                data |-> rlp_encode(
                    [protocol_version |-> caps[capability_name],
                     network_id |-> status_message[1].status.network_id,
                     fork_id |-> status_message[1].fork_filter.current])]) >>
    ELSE << OutboundDisconnect("DisconnectRequested") >>

\* Result<Option<Message>, DisconnectReason>::transpose, then the event to send.
transpose(result) ==
    IF result.tag = "Ok"
    THEN IF result.value = None THEN None
         ELSE Some(OutboundMessage(result.value[1]))
    ELSE Some(OutboundDisconnect(result.reason))

\* ------------------------------------------------------------------- threads
\* The locks of CapabilityServerImpl, by the field they guard.
Locks == {"peer_pipes", "block_tracker", "valid_peers", "status_message",
          "peer_id_cache"}

\* A lock nobody holds or waits for.  mode is "R" or "W" while it is held;
\* queue holds the requests that wait, oldest first.
Unlocked == [holders |-> {}, mode |-> "-", queue |-> <<>>]

\* The tasks that call the server: the ingress task of each peer, the egress
\* task that polls next, and the downstream consumer.
Threads == {"in1", "in2", "out", "api"}

\* A task between two calls: op is the handler it runs, pc its position in
\* it, held the locks it holds in the order it took them; the rest are the
\* handler's arguments and locals.
Idle == [op |-> "-", pc |-> "idle", id |-> "-", message |-> None, value |-> None,
         valid_peer |-> FALSE, ev |-> None, held |-> <<>>]

\* No conversion under way.
NoRoundTrip == [pk |-> None, id |-> None, back |-> None]

\* ---------------------------------------------------------------- the swarm
\* The swarm admits a peer only while no_new_peers is clear, and calls
\* on_peer_connect once per session, before any event of the session.
swarm_may_connect(p2p_peer_id) ==
    session[p2p_peer_id] = "idle" /\ ~no_new_peers

\* on_peer_event deliveries of one peer follow the wire: the next message is
\* delivered when the previous on_peer_event has returned.
swarm_may_deliver(p2p_peer_id) ==
    session[p2p_peer_id] = "connected" /\ pending[p2p_peer_id] = None

\* InboundEvent::Disconnect is the last event of a session and is delivered once.
swarm_may_disconnect(p2p_peer_id) == session[p2p_peer_id] = "connected"

\* The swarm polls next(peer) while the session lasts.
swarm_may_poll(p2p_peer_id) == session[p2p_peer_id] = "connected"

\* ----------------------------------------------------------------- handlers
InitServer ==
    /\ peer_pipes = EmptyMap
    /\ block_tracker = EmptyTracker
    /\ status_message = None
    /\ valid_peers = {}
    /\ no_new_peers = TRUE
    /\ peer_id_cache = EmptyMap
    /\ data_receivers = FALSE
    /\ peers_status_receivers = FALSE
    /\ data_sent = <<>>
    /\ peers_status_sent = <<>>
    /\ session = [id \in PeerIds |-> "idle"]
    /\ pending = [id \in PeerIds |-> None]
    /\ panicked = FALSE
    /\ status_at_connect = [id \in PeerIds |-> "-"]
    /\ status_seen = [id \in PeerIds |-> FALSE]
    /\ queued = [id \in PeerIds |-> <<>>]
    /\ got = [id \in PeerIds |-> <<>>]
    /\ last_reply = [id \in PeerIds |-> "-"]
    /\ locks = [l \in Locks |-> Unlocked]
    /\ threads = [t \in Threads |-> Idle]
    /\ min_block = None

Init == InitServer /\ round_trip = NoRoundTrip

\* The downstream consumer calls set_status.
SetStatus(message) ==
    /\ status_message' = set_status(message).status_message
    /\ no_new_peers' = set_status(message).no_new_peers
    /\ data_sent' = <<>>
    /\ peers_status_sent' = <<>>
    /\ UNCHANGED << peer_pipes, block_tracker, valid_peers, peer_id_cache,
                    data_receivers, peers_status_receivers, swarm_vars >>

on_peer_connect(p2p_peer_id) ==
    /\ swarm_may_connect(p2p_peer_id)
    /\ LET h == get_hash(p2p_peer_id)
           s == setup_peer(h.hash, Pipes(first_events))
       IN /\ peer_id_cache' = h.peer_id_cache
          /\ peer_pipes' = s.peer_pipes
          /\ block_tracker' = s.block_tracker
          /\ panicked' = s.panicked
    /\ session' = [session EXCEPT ![p2p_peer_id] = "connected"]
    /\ data_sent' = <<>>
    /\ peers_status_sent' = <<>>
    /\ UNCHANGED << status_message, valid_peers, no_new_peers, data_receivers,
                    peers_status_receivers, pending >>

\* on_peer_event with an InboundEvent::Message: handle_event, then the send of
\* the event it produced, which completes at once when the channel has room
\* and waits otherwise.
on_peer_event(p2p_peer_id, message) ==
    /\ swarm_may_deliver(p2p_peer_id)
    /\ LET h == get_hash(p2p_peer_id)
           peer == h.hash
           r == handle_event(peer, [type |-> "Message", message |-> message])
           ev == transpose(r.result)
           tx == sender(r.peer_pipes, peer)
       IN /\ peer_id_cache' = h.peer_id_cache
          /\ block_tracker' = r.block_tracker
          /\ valid_peers' = r.valid_peers
          /\ status_message' = r.status_message
          /\ data_sent' = r.data_sent
          /\ peers_status_sent' = r.peers_status_sent
          /\ IF ev = None
             THEN /\ peer_pipes' = r.peer_pipes
                  /\ UNCHANGED << pending, panicked >>
             ELSE IF tx = None
                  THEN /\ panicked' = TRUE
                       /\ peer_pipes' = r.peer_pipes
                       /\ UNCHANGED pending
                  ELSE /\ UNCHANGED panicked
                       /\ IF channel_has_room(r.peer_pipes[peer])
                          THEN /\ peer_pipes' =
                                      [r.peer_pipes EXCEPT ![peer] = channel_send(@, ev[1])]
                               /\ UNCHANGED pending
                          ELSE /\ peer_pipes' = r.peer_pipes
                               /\ pending' = [pending EXCEPT ![p2p_peer_id] = ev]
    /\ UNCHANGED << no_new_peers, data_receivers, peers_status_receivers, session >>

\* The send of a waiting on_peer_event completes when the channel has room.
on_peer_event_send(p2p_peer_id) ==
    /\ pending[p2p_peer_id] # None
    /\ LET peer == peer_id_hash_from_peer_id(p2p_peer_id)
       IN /\ peer \in DOMAIN peer_pipes
          /\ channel_has_room(peer_pipes[peer])
          /\ peer_pipes' =
                 [peer_pipes EXCEPT ![peer] = channel_send(@, pending[p2p_peer_id][1])]
    /\ pending' = [pending EXCEPT ![p2p_peer_id] = None]
    /\ data_sent' = <<>>
    /\ peers_status_sent' = <<>>
    /\ UNCHANGED << block_tracker, status_message, valid_peers, no_new_peers,
                    peer_id_cache, data_receivers, peers_status_receivers, session,
                    panicked >>

\* on_peer_event with InboundEvent::Disconnect: handle_event tears the peer
\* down and returns Ok(None), so nothing is sent to the peer.  A send of the
\* session that still waits ends with it.
on_peer_disconnect(p2p_peer_id) ==
    /\ swarm_may_disconnect(p2p_peer_id)
    /\ LET h == get_hash(p2p_peer_id)
           r == handle_event(h.hash, [type |-> "Disconnect", reason |-> "-"])
       IN /\ peer_id_cache' = h.peer_id_cache
          /\ peer_pipes' = r.peer_pipes
          /\ block_tracker' = r.block_tracker
          /\ valid_peers' = r.valid_peers
          /\ status_message' = r.status_message
          /\ data_sent' = r.data_sent
          /\ peers_status_sent' = r.peers_status_sent
    /\ session' = [session EXCEPT ![p2p_peer_id] = "idle"]
    /\ pending' = [pending EXCEPT ![p2p_peer_id] = None]
    /\ UNCHANGED << no_new_peers, data_receivers, peers_status_receivers, panicked >>

\* next: the stream of the peer's pipes is polled; the call waits while the
\* stream is not ready.
next(p2p_peer_id) ==
    /\ swarm_may_poll(p2p_peer_id)
    /\ LET h == get_hash(p2p_peer_id)
           peer == h.hash
           rx == receiver(peer_pipes, peer)
       IN /\ peer_id_cache' = h.peer_id_cache
          /\ IF rx = None
             THEN /\ panicked' = TRUE
                  /\ UNCHANGED peer_pipes
             ELSE /\ UNCHANGED panicked
                  /\ stream_next(peer_pipes[peer]).ready
                  /\ peer_pipes' =
                         [peer_pipes EXCEPT ![peer] = stream_next(peer_pipes[peer]).pipes]
    /\ data_sent' = <<>>
    /\ peers_status_sent' = <<>>
    /\ UNCHANGED << block_tracker, status_message, valid_peers, no_new_peers,
                    data_receivers, peers_status_receivers, session, pending >>

\* The downstream consumer subscribes to a stream and drops it.
data_subscribe ==
    /\ ~data_receivers
    /\ data_receivers' = TRUE
    /\ data_sent' = <<>>
    /\ peers_status_sent' = <<>>
    /\ UNCHANGED << server_vars, peers_status_receivers, swarm_vars >>

data_unsubscribe ==
    /\ data_receivers
    /\ data_receivers' = FALSE
    /\ data_sent' = <<>>
    /\ peers_status_sent' = <<>>
    /\ UNCHANGED << server_vars, peers_status_receivers, swarm_vars >>

peers_status_subscribe ==
    /\ ~peers_status_receivers
    /\ peers_status_receivers' = TRUE
    /\ data_sent' = <<>>
    /\ peers_status_sent' = <<>>
    /\ UNCHANGED << server_vars, data_receivers, swarm_vars >>

peers_status_unsubscribe ==
    /\ peers_status_receivers
    /\ peers_status_receivers' = FALSE
    /\ data_sent' = <<>>
    /\ peers_status_sent' = <<>>
    /\ UNCHANGED << server_vars, data_receivers, swarm_vars >>

\* ---------------------------------------------------------------- observers
\* What an observer of the calls records: whether FullStatusData was set when
\* the peer connected, and whether a Status of the peer was handled since.
observe_connect(p2p_peer_id) ==
    /\ status_at_connect' =
           [status_at_connect EXCEPT
               ![p2p_peer_id] = IF status_message = None THEN "unset" ELSE "set"]
    /\ status_seen' = [status_seen EXCEPT ![p2p_peer_id] = FALSE]

observe_event(p2p_peer_id, message) ==
    /\ status_seen' =
           [status_seen EXCEPT ![p2p_peer_id] = @ \/ from_usize(message.id) = Some("Status")]
    /\ UNCHANGED status_at_connect

observe_disconnect(p2p_peer_id) ==
    /\ status_at_connect' = [status_at_connect EXCEPT ![p2p_peer_id] = "-"]
    /\ status_seen' = [status_seen EXCEPT ![p2p_peer_id] = FALSE]

\* The event an on_peer_event of this message hands to the peer's sender.
produced(p2p_peer_id, message) ==
    transpose(handle_event(peer_id_hash_from_peer_id(p2p_peer_id),
                           [type |-> "Message", message |-> message]).result)

\* The event next returns to the swarm.
returned(p2p_peer_id) ==
    stream_next(peer_pipes[peer_id_hash_from_peer_id(p2p_peer_id)]).event

observe_queued(p2p_peer_id, message) ==
    /\ Len(queued[p2p_peer_id]) < MaxQueued
    /\ queued' = [queued EXCEPT ![p2p_peer_id] = @ \o produced(p2p_peer_id, message)]
    /\ UNCHANGED got

observe_got(p2p_peer_id) ==
    /\ got' = [got EXCEPT ![p2p_peer_id] = Append(@, returned(p2p_peer_id))]
    /\ UNCHANGED queued

observe_reset(p2p_peer_id) ==
    /\ queued' = [queued EXCEPT ![p2p_peer_id] = <<>>]
    /\ got' = [got EXCEPT ![p2p_peer_id] = <<>>]

\* The event of the last PeersReply the step handed to peers_status_sender for
\* each peer, whether or not a subscriber took it; the one before when the
\* step sent none.
observe_reply ==
    last_reply' =
        [id \in PeerIds |->
            LET mine == {i \in 1..Len(peers_status_sent') :
                            peers_status_sent'[i].msg.peer_id
                                = peer_id_hash_from_peer_id(id)}
            IN IF mine = {} THEN last_reply[id]
               ELSE peers_status_sent'[CHOOSE i \in mine : \A j \in mine : j <= i].msg.event]

\* ------------------------------------------------------------ specifications
\* Spec: every peer, every handler, the handshake observer.
Next ==
    \/ \E message \in FullStatusDatas :
           SetStatus(message) /\ UNCHANGED << handshake_observer, pipe_observer, reply_observer, aux_vars >>
    \/ \E id \in PeerIds :
           on_peer_connect(id) /\ observe_connect(id) /\ UNCHANGED << pipe_observer, reply_observer, aux_vars >>
    \/ \E id \in PeerIds : \E message \in InboundMessages :
           on_peer_event(id, message) /\ observe_event(id, message)
               /\ UNCHANGED << pipe_observer, reply_observer, aux_vars >>
    \/ \E id \in PeerIds :
           on_peer_event_send(id) /\ UNCHANGED << handshake_observer, pipe_observer, reply_observer, aux_vars >>
    \/ \E id \in PeerIds :
           on_peer_disconnect(id) /\ observe_disconnect(id) /\ UNCHANGED << pipe_observer, reply_observer, aux_vars >>
    \/ \E id \in PeerIds :
           next(id) /\ UNCHANGED << handshake_observer, pipe_observer, reply_observer, aux_vars >>
    \/ data_subscribe /\ UNCHANGED << handshake_observer, pipe_observer, reply_observer, aux_vars >>
    \/ data_unsubscribe /\ UNCHANGED << handshake_observer, pipe_observer, reply_observer, aux_vars >>
    \/ peers_status_subscribe /\ UNCHANGED << handshake_observer, pipe_observer, reply_observer, aux_vars >>
    \/ peers_status_unsubscribe /\ UNCHANGED << handshake_observer, pipe_observer, reply_observer, aux_vars >>

Spec == Init /\ [][Next]_vars

\* SpecPipe: the sessions of one peer, with the events its on_peer_event calls
\* produced and its next calls returned recorded in order.
ObservedPeer == "pk1"

\* The send of the observed peer's waiting on_peer_event completes.
PipeSend ==
    on_peer_event_send(ObservedPeer)
        /\ UNCHANGED << handshake_observer, pipe_observer >>
        /\ observe_reply /\ UNCHANGED aux_vars

\* A next of the observed peer returns an event.
PipePoll ==
    next(ObservedPeer) /\ observe_got(ObservedPeer) /\ UNCHANGED handshake_observer
        /\ observe_reply /\ UNCHANGED aux_vars

PipeNext ==
    \/ \E message \in FullStatusDatas :
           SetStatus(message) /\ UNCHANGED << handshake_observer, pipe_observer >>
               /\ observe_reply /\ UNCHANGED aux_vars
    \/ on_peer_connect(ObservedPeer) /\ observe_connect(ObservedPeer)
           /\ observe_reset(ObservedPeer) /\ observe_reply /\ UNCHANGED aux_vars
    \/ \E message \in InboundMessages :
           on_peer_event(ObservedPeer, message) /\ observe_event(ObservedPeer, message)
               /\ observe_queued(ObservedPeer, message)
               /\ observe_reply /\ UNCHANGED aux_vars
    \/ PipeSend
    \/ on_peer_disconnect(ObservedPeer) /\ observe_disconnect(ObservedPeer)
           /\ observe_reset(ObservedPeer) /\ observe_reply /\ UNCHANGED aux_vars
    \/ PipePoll
    \/ data_subscribe /\ UNCHANGED << handshake_observer, pipe_observer >>
           /\ observe_reply /\ UNCHANGED aux_vars
    \/ data_unsubscribe /\ UNCHANGED << handshake_observer, pipe_observer >>
           /\ observe_reply /\ UNCHANGED aux_vars
    \/ peers_status_subscribe /\ UNCHANGED << handshake_observer, pipe_observer >>
           /\ observe_reply /\ UNCHANGED aux_vars
    \/ peers_status_unsubscribe /\ UNCHANGED << handshake_observer, pipe_observer >>
           /\ observe_reply /\ UNCHANGED aux_vars

SpecPipe == Init /\ [][PipeNext]_vars

\* SpecPipeLive: SpecPipe where the swarm keeps polling next, so that a next
\* whose stream is ready returns, and where the runtime wakes the sender that
\* waits for room in the channel, so that a send that can complete does.
SpecPipeLive == SpecPipe /\ WF_vars(PipePoll) /\ WF_vars(PipeSend)

\* ------------------------------------------------------- read/write locks
\* parking_lot::RwLock is task-fair: a request waits behind every request
\* that waits already, except that readers behind readers share the lock; so
\* a reader waits while a writer holds the lock or waits for it.
Queued(l, t) == \E i \in 1..Len(locks[l].queue) : locks[l].queue[i].thread = t

Ahead(l, t) ==
    IF Queued(l, t)
    THEN SubSeq(locks[l].queue, 1,
                (CHOOSE i \in 1..Len(locks[l].queue) : locks[l].queue[i].thread = t) - 1)
    ELSE locks[l].queue

may_lock(l, mode, t) ==
    IF mode = "W"
    THEN locks[l].holders = {} /\ Ahead(l, t) = <<>>
    ELSE /\ locks[l].mode # "W"
         /\ \A i \in 1..Len(Ahead(l, t)) : Ahead(l, t)[i].mode = "R"

Dequeue(queue, t) == SelectSeq(queue, LAMBDA request : request.thread # t)

\* RwLock::read() / RwLock::write() returning its guard.
rwlock_lock(l, mode, t) ==
    [locks EXCEPT ![l] = [holders |-> @.holders \cup {t}, mode |-> mode,
                          queue |-> Dequeue(@.queue, t)]]

\* Mutant of rwlock_unlock: a read guard of peer_pipes lives on after the
\* statement that took it.
rwlock_unlock_keeps_pipes_read(lks, l, t) ==
    IF l = "peer_pipes" /\ lks[l].mode = "R"
    THEN lks
    ELSE [lks EXCEPT ![l] = [holders |-> @.holders \ {t},
                             mode |-> IF @.holders \ {t} = {} THEN "-" ELSE @.mode,
                             queue |-> @.queue]]

\* The guard of the lock is dropped.
rwlock_unlock(lks, l, t) ==
    [lks EXCEPT ![l] = [holders |-> @.holders \ {t},
                        mode |-> IF @.holders \ {t} = {} THEN "-" ELSE @.mode,
                        queue |-> @.queue]]

\* The lock a thread asks for at its position, the mode it asks in, and the
\* position it goes to with the guard.
NoLock == [lock |-> "-", mode |-> "-", then |-> "-"]

Want(lock, mode, then) == [lock |-> lock, mode |-> mode, then |-> then]

\* Mutant of teardown_order: valid_peers first, peer_pipes last.
teardown_order_reversed == << "valid_peers", "block_tracker", "peer_pipes" >>

\* let mut pipes = self.peer_pipes.write();
\* let mut block_tracker = self.block_tracker.write();
\* let mut valid_peers = self.valid_peers.write();
teardown_order == << "peer_pipes", "block_tracker", "valid_peers" >>

wants(t) ==
    LET pc == threads[t].pc
    IN CASE pc = "hash_read" -> Want("peer_id_cache", "R", "hash_reading")
         [] pc = "hash_write" -> Want("peer_id_cache", "W", "hash_writing")
         \* on_peer_connect: if let Some(..) = &*self.status_message.read()
         [] pc = "connect_status" -> Want("status_message", "R", "connect_status_read")
         \* setup_peer
         [] pc = "setup_pipes" -> Want("peer_pipes", "W", "setup_tracker")
         [] pc = "setup_tracker" -> Want("block_tracker", "W", "setup_locked")
         \* handle_event: self.valid_peers.read().contains(&peer)
         [] pc = "event_valid" -> Want("valid_peers", "R", "event_valid_read")
         \* the Status arm: status_message.read(), then valid_peers.write()
         [] pc = "status_data" -> Want("status_message", "R", "status_valid")
         [] pc = "status_valid" -> Want("valid_peers", "W", "status_locked")
         \* *self.status_message.write() = None
         [] pc = "quit_status" -> Want("status_message", "W", "quit_locked")
         \* self.sender(peer)
         [] pc = "event_sender" -> Want("peer_pipes", "R", "event_sender_read")
         \* teardown_peer
         [] pc = "teardown_first" -> Want(teardown_order[1], "W", "teardown_second")
         [] pc = "teardown_second" -> Want(teardown_order[2], "W", "teardown_third")
         [] pc = "teardown_third" -> Want(teardown_order[3], "W", "teardown_locked")
         \* self.receiver(peer)
         [] pc = "next_receiver" -> Want("peer_pipes", "R", "next_receiver_read")
         \* set_status, all_peers, connected_peers
         [] pc = "set_status" -> Want("status_message", "W", "set_status_locked")
         [] pc = "all_peers" -> Want("peer_pipes", "R", "all_peers_read")
         [] pc = "connected_peers" -> Want("valid_peers", "R", "connected_peers_read")
         [] OTHER -> NoLock

\* The thread finds its lock taken and parks in the queue of the lock.
rwlock_park(t) ==
    /\ wants(t) # NoLock
    /\ ~Queued(wants(t).lock, t)
    /\ ~may_lock(wants(t).lock, wants(t).mode, t)
    /\ locks' = [locks EXCEPT ![wants(t).lock].queue =
                                  Append(@, [thread |-> t, mode |-> wants(t).mode])]
    /\ UNCHANGED threads

\* The thread gets its lock, at once or from the queue.
rwlock_acquire(t) ==
    /\ wants(t) # NoLock
    /\ may_lock(wants(t).lock, wants(t).mode, t)
    /\ locks' = rwlock_lock(wants(t).lock, wants(t).mode, t)
    /\ threads' = [threads EXCEPT ![t].pc = wants(t).then,
                                  ![t].held = Append(@, wants(t).lock)]

\* The guards a thread holds, without the one it drops.
Dropped(held, l) == SelectSeq(held, LAMBDA h : h # l)

\* ------------------------------------------------------- get_hash, by steps
\* let value = self.peer_id_cache.read().get(&p2p_peer_id).cloned();
get_hash_lookup(p2p_peer_id) ==
    IF p2p_peer_id \in DOMAIN peer_id_cache THEN Some(peer_id_cache[p2p_peer_id])
    ELSE None

\* Mutant of get_hash_insert: the insert drops the entries of the other keys.
get_hash_insert_alone(p2p_peer_id) ==
    [hash |-> peer_id_hash_from_peer_id(p2p_peer_id),
     peer_id_cache |->
         MapInsert(EmptyMap, p2p_peer_id, peer_id_hash_from_peer_id(p2p_peer_id))]

\* None => { let hash = peer_id_hash_from_peer_id(p2p_peer_id);
\*           self.peer_id_cache.write().insert(p2p_peer_id, hash); hash }
get_hash_insert(p2p_peer_id) ==
    [hash |-> peer_id_hash_from_peer_id(p2p_peer_id),
     peer_id_cache |->
         MapInsert(peer_id_cache, p2p_peer_id, peer_id_hash_from_peer_id(p2p_peer_id))]

\* Where the caller of get_hash goes on with the hash.
after_hash(t) ==
    CASE threads[t].op = "on_peer_connect" -> "connect_status"
      [] threads[t].op = "on_peer_event" -> "event_valid"
      [] threads[t].op = "on_peer_disconnect" -> "teardown_first"
      [] threads[t].op = "next" -> "next_receiver"
      [] OTHER -> "hash_done"

\* A task calls get_hash.
get_hash_call(t, p2p_peer_id) ==
    /\ threads[t].pc = "idle"
    /\ threads' = [threads EXCEPT ![t] = [Idle EXCEPT !.op = "get_hash",
                                                       !.pc = "hash_read",
                                                       !.id = p2p_peer_id]]
    /\ UNCHANGED << locks, peer_id_cache >>

\* The read of the cache; the read guard is dropped with the statement.
get_hash_read(t) ==
    /\ threads[t].pc = "hash_reading"
    /\ locks' = rwlock_unlock(locks, "peer_id_cache", t)
    /\ threads' = [threads EXCEPT
                      ![t].value = get_hash_lookup(threads[t].id),
                      ![t].held = Dropped(@, "peer_id_cache"),
                      ![t].pc = IF get_hash_lookup(threads[t].id) = None
                                THEN "hash_write" ELSE after_hash(t)]
    /\ UNCHANGED peer_id_cache

\* The None arm: the hash is computed, then inserted under the write guard.
get_hash_write(t) ==
    /\ threads[t].pc = "hash_writing"
    /\ locks' = rwlock_unlock(locks, "peer_id_cache", t)
    /\ peer_id_cache' = get_hash_insert(threads[t].id).peer_id_cache
    /\ threads' = [threads EXCEPT
                      ![t].value = Some(get_hash_insert(threads[t].id).hash),
                      ![t].held = Dropped(@, "peer_id_cache"),
                      ![t].pc = after_hash(t)]

\* get_hash returns the value to its caller.
get_hash_return(t) ==
    /\ threads[t].op = "get_hash" /\ threads[t].pc = "hash_done"
    /\ threads' = [threads EXCEPT ![t] = Idle]
    /\ UNCHANGED << locks, peer_id_cache >>

\* SpecCache: concurrent get_hash calls, with the same and with different keys.
CacheThreads == Threads \ {"api"}

cache_frame ==
    UNCHANGED << peer_pipes, block_tracker, status_message, valid_peers, no_new_peers,
                 channel_vars, swarm_vars, handshake_observer, pipe_observer,
                 reply_observer, peer_id_vars,
                 query_vars >>

CacheNext ==
    \/ \E t \in CacheThreads : \E id \in PeerIds : get_hash_call(t, id) /\ cache_frame
    \/ \E t \in CacheThreads : rwlock_park(t) /\ UNCHANGED peer_id_cache /\ cache_frame
    \/ \E t \in CacheThreads : rwlock_acquire(t) /\ UNCHANGED peer_id_cache /\ cache_frame
    \/ \E t \in CacheThreads : get_hash_read(t) /\ cache_frame
    \/ \E t \in CacheThreads : get_hash_write(t) /\ cache_frame
    \/ \E t \in CacheThreads : get_hash_return(t) /\ cache_frame

SpecCache == Init /\ [][CacheNext]_vars

\* ------------------------------------------------------ handlers, by steps
\* The ingress task of each peer calls on_peer_connect and on_peer_event for
\* it, one call after the other.
Ingress == [in1 |-> "pk1", in2 |-> "pk2"]

\* The egress task, which polls next, and the downstream consumer.
Egress == {"out"}
Consumers == {"api"}

\* The peer a handler works for: the hash get_hash returned.
peer_of(t) == threads[t].value[1]

Call(op, id, message) == [Idle EXCEPT !.op = op, !.pc = "hash_read", !.id = id,
                                      !.message = message]

\* What a step of a handler leaves alone when it touches only its own locals
\* and the locks.
local_step ==
    /\ data_sent' = <<>>
    /\ peers_status_sent' = <<>>
    /\ UNCHANGED << peer_pipes, block_tracker, status_message, valid_peers,
                    no_new_peers, session, panicked >>

\* The swarm calls on_peer_connect.
on_peer_connect_call(t) ==
    /\ threads[t].pc = "idle"
    /\ swarm_may_connect(Ingress[t])
    /\ threads' = [threads EXCEPT ![t] = Call("on_peer_connect", Ingress[t], None)]
    /\ UNCHANGED << locks, peer_id_cache >>
    /\ local_step

\* if let Some(FullStatusData { status, fork_filter }) = &*self.status_message.read()
\* builds first_events under the read guard.
on_peer_connect_first_events(t) ==
    /\ threads[t].pc = "connect_status_read"
    /\ locks' = rwlock_unlock(locks, "status_message", t)
    /\ threads' = [threads EXCEPT ![t].ev = first_events,
                                  ![t].held = Dropped(@, "status_message"),
                                  ![t].pc = "setup_pipes"]
    /\ UNCHANGED peer_id_cache
    /\ local_step

\* setup_peer under its two write guards; on_peer_connect returns the stream.
on_peer_connect_setup(t) ==
    /\ threads[t].pc = "setup_locked"
    /\ LET s == setup_peer(peer_of(t), Pipes(threads[t].ev))
       IN /\ peer_pipes' = s.peer_pipes
          /\ block_tracker' = s.block_tracker
          /\ panicked' = s.panicked
    /\ locks' = rwlock_unlock(rwlock_unlock(locks, "block_tracker", t), "peer_pipes", t)
    /\ session' = [session EXCEPT ![threads[t].id] = "connected"]
    /\ threads' = [threads EXCEPT ![t] = Idle]
    /\ data_sent' = <<>>
    /\ peers_status_sent' = <<>>
    /\ UNCHANGED << status_message, valid_peers, no_new_peers, peer_id_cache >>

\* The swarm calls on_peer_event with a message of the peer.
on_peer_event_call(t, message) ==
    /\ threads[t].pc = "idle"
    /\ swarm_may_deliver(Ingress[t])
    /\ threads' = [threads EXCEPT ![t] = Call("on_peer_event", Ingress[t], Some(message))]
    /\ UNCHANGED << locks, peer_id_cache >>
    /\ local_step

\* let valid_peer = self.valid_peers.read().contains(&peer); then the match
\* on the message id, up to the first lock or send of the arm it takes.
handle_event_valid_peer(t) ==
    /\ threads[t].pc = "event_valid_read"
    /\ locks' = rwlock_unlock(locks, "valid_peers", t)
    /\ LET message == threads[t].message[1]
           message_id == from_usize(message.id)
           valid_peer == peer_of(t) \in valid_peers
           leaves == [threads[t] EXCEPT !.valid_peer = valid_peer,
                                        !.held = Dropped(@, "valid_peers")]
       IN threads' =
              [threads EXCEPT ![t] =
                  CASE message_id = None -> Idle
                    [] message_id = Some("Status") ->
                           IF rlp_decode(message.data).ok
                           THEN [leaves EXCEPT !.pc = "status_data"]
                           ELSE [leaves EXCEPT
                                    !.ev = Some(OutboundDisconnect("ProtocolBreach")),
                                    !.pc = "event_sender"]
                    [] message_id # None /\ message_id # Some("Status") /\ valid_peer ->
                           [leaves EXCEPT !.pc = "event_forward"]
                    [] OTHER -> Idle]
    /\ UNCHANGED peer_id_cache
    /\ local_step

\* The Status arm under status_message.read() and valid_peers.write().
handle_event_status(t) ==
    /\ threads[t].pc = "status_locked"
    /\ LET r == handle_status(peer_of(t), threads[t].message[1].data)
       IN /\ valid_peers' = r.valid_peers
          /\ peers_status_sent' = r.peers_status_sent
          /\ threads' =
                 [threads EXCEPT ![t] =
                     IF transpose(r.result) = None THEN Idle
                     ELSE [threads[t] EXCEPT !.ev = transpose(r.result),
                                             !.held = <<>>,
                                             !.pc = "event_sender"]]
    /\ locks' = rwlock_unlock(rwlock_unlock(locks, "valid_peers", t), "status_message", t)
    /\ data_sent' = <<>>
    /\ UNCHANGED << peer_pipes, block_tracker, status_message, no_new_peers,
                    peer_id_cache, session, panicked >>

\* Some(inbound_id) if valid_peer: the send on data_sender.
handle_event_forward(t) ==
    /\ threads[t].pc = "event_forward"
    /\ LET message == threads[t].message[1]
           r == handle_inbound(peer_of(t), from_usize(message.id)[1], message.data)
       IN /\ data_sent' = r.data_sent
          /\ threads' = [threads EXCEPT ![t] =
                            IF r.result.tag = "Err"
                            THEN [threads[t] EXCEPT !.pc = "quit_status"]
                            ELSE Idle]
    /\ peers_status_sent' = <<>>
    /\ UNCHANGED << peer_pipes, block_tracker, status_message, valid_peers,
                    no_new_peers, peer_id_cache, session, panicked, locks >>

\* *self.status_message.write() = None; return Err(DisconnectReason::ClientQuitting)
handle_event_quit(t) ==
    /\ threads[t].pc = "quit_locked"
    /\ status_message' = None
    /\ locks' = rwlock_unlock(locks, "status_message", t)
    /\ threads' = [threads EXCEPT
                      ![t].ev = transpose(Err("ClientQuitting")),
                      ![t].held = Dropped(@, "status_message"),
                      ![t].pc = "event_sender"]
    /\ data_sent' = <<>>
    /\ peers_status_sent' = <<>>
    /\ UNCHANGED << peer_pipes, block_tracker, valid_peers, no_new_peers,
                    peer_id_cache, session, panicked >>

\* self.sender(peer).unwrap(): the task panics when the peer has no pipes.
on_peer_event_sender(t) ==
    /\ threads[t].pc = "event_sender_read"
    /\ locks' = rwlock_unlock(locks, "peer_pipes", t)
    /\ IF sender(peer_pipes, peer_of(t)) = None
       THEN /\ panicked' = TRUE
            /\ threads' = [threads EXCEPT ![t] = [Idle EXCEPT !.pc = "panicked"]]
       ELSE /\ UNCHANGED panicked
            /\ threads' = [threads EXCEPT ![t].held = Dropped(@, "peer_pipes"),
                                          ![t].pc = "event_send"]
    /\ data_sent' = <<>>
    /\ peers_status_sent' = <<>>
    /\ UNCHANGED << peer_pipes, block_tracker, status_message, valid_peers,
                    no_new_peers, peer_id_cache, session >>

\* .send(event).await: completes when the channel has room.
on_peer_event_sent(t) ==
    /\ threads[t].pc = "event_send"
    /\ peer_of(t) \in DOMAIN peer_pipes
    /\ channel_has_room(peer_pipes[peer_of(t)])
    /\ peer_pipes' = [peer_pipes EXCEPT
                         ![peer_of(t)] = channel_send(@, threads[t].ev[1])]
    /\ threads' = [threads EXCEPT ![t] = Idle]
    /\ data_sent' = <<>>
    /\ peers_status_sent' = <<>>
    /\ UNCHANGED << block_tracker, status_message, valid_peers, no_new_peers,
                    peer_id_cache, session, panicked, locks >>

\* The swarm calls on_peer_event with InboundEvent::Disconnect.
on_peer_disconnect_call(t) ==
    /\ threads[t].pc = "idle"
    /\ swarm_may_disconnect(Ingress[t])
    /\ threads' = [threads EXCEPT ![t] = Call("on_peer_disconnect", Ingress[t], None)]
    /\ UNCHANGED << locks, peer_id_cache >>
    /\ local_step

\* teardown_peer under its three write guards: pipes.remove(&peer)
teardown_peer_pipes(t) ==
    /\ threads[t].pc = "teardown_locked"
    /\ peer_pipes' = teardown_peer(peer_of(t)).peer_pipes
    /\ threads' = [threads EXCEPT ![t].pc = "teardown_tracker"]
    /\ data_sent' = <<>>
    /\ peers_status_sent' = <<>>
    /\ UNCHANGED << block_tracker, status_message, valid_peers, no_new_peers,
                    peer_id_cache, session, panicked, locks >>

\* block_tracker.remove_peer(peer)
teardown_peer_tracker(t) ==
    /\ threads[t].pc = "teardown_tracker"
    /\ block_tracker' = teardown_peer(peer_of(t)).block_tracker
    /\ threads' = [threads EXCEPT ![t].pc = "teardown_valid"]
    /\ data_sent' = <<>>
    /\ peers_status_sent' = <<>>
    /\ UNCHANGED << peer_pipes, status_message, valid_peers, no_new_peers,
                    peer_id_cache, session, panicked, locks >>

\* valid_peers.remove(&peer)
teardown_peer_valid(t) ==
    /\ threads[t].pc = "teardown_valid"
    /\ valid_peers' = teardown_peer(peer_of(t)).valid_peers
    /\ threads' = [threads EXCEPT ![t].pc = "teardown_send"]
    /\ data_sent' = <<>>
    /\ peers_status_sent' = <<>>
    /\ UNCHANGED << peer_pipes, block_tracker, status_message, no_new_peers,
                    peer_id_cache, session, panicked, locks >>

\* The PeersReply Disconnect is sent, the guards are dropped at the end of
\* teardown_peer, and on_peer_event returns: the session of the peer is over.
teardown_peer_send(t) ==
    /\ threads[t].pc = "teardown_send"
    /\ peers_status_sent' = teardown_peer(peer_of(t)).peers_status_sent
    /\ locks' = rwlock_unlock(rwlock_unlock(rwlock_unlock(locks, "valid_peers", t),
                                            "block_tracker", t), "peer_pipes", t)
    /\ session' = [session EXCEPT ![threads[t].id] = "idle"]
    /\ threads' = [threads EXCEPT ![t] = Idle]
    /\ data_sent' = <<>>
    /\ UNCHANGED << peer_pipes, block_tracker, status_message, valid_peers,
                    no_new_peers, peer_id_cache, panicked >>

\* The swarm polls next for a peer whose session lasts.
next_call(t, p2p_peer_id) ==
    /\ threads[t].pc = "idle"
    /\ swarm_may_poll(p2p_peer_id)
    /\ threads' = [threads EXCEPT ![t] = Call("next", p2p_peer_id, None)]
    /\ UNCHANGED << locks, peer_id_cache >>
    /\ local_step

\* self.receiver(peer).unwrap(): the task panics when the peer has no pipes.
next_receiver(t) ==
    /\ threads[t].pc = "next_receiver_read"
    /\ locks' = rwlock_unlock(locks, "peer_pipes", t)
    /\ IF receiver(peer_pipes, peer_of(t)) = None
       THEN /\ panicked' = TRUE
            /\ threads' = [threads EXCEPT ![t] = [Idle EXCEPT !.pc = "panicked"]]
       ELSE /\ UNCHANGED panicked
            /\ threads' = [threads EXCEPT ![t].held = Dropped(@, "peer_pipes"),
                                          ![t].pc = "next_poll"]
    /\ data_sent' = <<>>
    /\ peers_status_sent' = <<>>
    /\ UNCHANGED << peer_pipes, block_tracker, status_message, valid_peers,
                    no_new_peers, peer_id_cache, session >>

\* .lock().await.next().await.unwrap_or(Disconnect): the stream yields its
\* next event; when the pipes were dropped meanwhile, the stream ends and
\* next returns the Disconnect.
next_poll(t) ==
    /\ threads[t].pc = "next_poll"
    /\ IF peer_of(t) \in DOMAIN peer_pipes
       THEN /\ stream_next(peer_pipes[peer_of(t)]).ready
            /\ peer_pipes' = [peer_pipes EXCEPT
                                 ![peer_of(t)] = stream_next(peer_pipes[peer_of(t)]).pipes]
       ELSE UNCHANGED peer_pipes
    /\ threads' = [threads EXCEPT ![t] = Idle]
    /\ data_sent' = <<>>
    /\ peers_status_sent' = <<>>
    /\ UNCHANGED << block_tracker, status_message, valid_peers, no_new_peers,
                    peer_id_cache, session, panicked, locks >>

\* The downstream consumer calls set_status.
set_status_call(t, message) ==
    /\ threads[t].pc = "idle"
    /\ threads' = [threads EXCEPT ![t] = [Idle EXCEPT !.op = "set_status",
                                                       !.pc = "set_status",
                                                       !.message = Some(message)]]
    /\ UNCHANGED << locks, peer_id_cache >>
    /\ local_step

\* *self.status_message.write() = Some(message)
set_status_write(t) ==
    /\ threads[t].pc = "set_status_locked"
    /\ status_message' = set_status(threads[t].message[1]).status_message
    /\ locks' = rwlock_unlock(locks, "status_message", t)
    /\ threads' = [threads EXCEPT ![t].held = Dropped(@, "status_message"),
                                  ![t].pc = "set_status_store"]
    /\ data_sent' = <<>>
    /\ peers_status_sent' = <<>>
    /\ UNCHANGED << peer_pipes, block_tracker, valid_peers, no_new_peers,
                    peer_id_cache, session, panicked >>

\* self.no_new_peers.store(false, Ordering::SeqCst)
set_status_store(t) ==
    /\ threads[t].pc = "set_status_store"
    /\ no_new_peers' = set_status(threads[t].message[1]).no_new_peers
    /\ threads' = [threads EXCEPT ![t] = Idle]
    /\ data_sent' = <<>>
    /\ peers_status_sent' = <<>>
    /\ UNCHANGED << peer_pipes, block_tracker, status_message, valid_peers,
                    peer_id_cache, session, panicked, locks >>

\* The downstream consumer calls all_peers or connected_peers.
accessor_call(t, op) ==
    /\ threads[t].pc = "idle"
    /\ threads' = [threads EXCEPT ![t] = [Idle EXCEPT !.op = op, !.pc = op]]
    /\ UNCHANGED << locks, peer_id_cache >>
    /\ local_step

\* self.peer_pipes.read().keys().copied().collect()
all_peers_read(t) ==
    /\ threads[t].pc = "all_peers_read"
    /\ locks' = rwlock_unlock(locks, "peer_pipes", t)
    /\ threads' = [threads EXCEPT ![t] = Idle]
    /\ UNCHANGED peer_id_cache
    /\ local_step

\* self.valid_peers.read().len()
connected_peers_read(t) ==
    /\ threads[t].pc = "connected_peers_read"
    /\ locks' = rwlock_unlock(locks, "valid_peers", t)
    /\ threads' = [threads EXCEPT ![t] = Idle]
    /\ UNCHANGED peer_id_cache
    /\ local_step

\* The messages of the peers in the specification of the threads: a Status
\* that passes, one that does not decode, and a message to forward.
ThreadMessages ==
    {message \in InboundMessages :
        /\ from_usize(message.id) # None
        /\ from_usize(message.id) = Some("Status") /\ rlp_decode(message.data).ok
               => rlp_decode(message.data).v.fork_id = "forkA"}

\* The FullStatusData the downstream consumer sets there.
ThreadStatusDatas ==
    {message \in FullStatusDatas : message.fork_filter.accepts = {"forkA"}}

thread_frame ==
    UNCHANGED << data_receivers, peers_status_receivers, pending, handshake_observer,
                 pipe_observer, reply_observer, peer_id_vars,
                 query_vars >>

\* A step of a task inside a handler.
thread_step(t) ==
    \/ rwlock_park(t) /\ UNCHANGED peer_id_cache /\ local_step
    \/ rwlock_acquire(t) /\ UNCHANGED peer_id_cache /\ local_step
    \/ get_hash_read(t) /\ local_step
    \/ get_hash_write(t) /\ local_step
    \/ on_peer_connect_first_events(t)
    \/ on_peer_connect_setup(t)
    \/ handle_event_valid_peer(t)
    \/ handle_event_status(t)
    \/ handle_event_forward(t)
    \/ handle_event_quit(t)
    \/ on_peer_event_sender(t)
    \/ on_peer_event_sent(t)
    \/ teardown_peer_pipes(t)
    \/ teardown_peer_tracker(t)
    \/ teardown_peer_valid(t)
    \/ teardown_peer_send(t)
    \/ next_receiver(t)
    \/ next_poll(t)
    \/ set_status_write(t)
    \/ set_status_store(t)
    \/ all_peers_read(t)
    \/ connected_peers_read(t)

\* SpecThreads: the handlers of one peer, of the egress task that polls next
\* for it and of the downstream consumer, interleaved step by step.
SessionThreads == {"in1", "out", "api"}

\* A call of the swarm or of the downstream consumer.
thread_call ==
    \/ \E t \in DOMAIN Ingress \cap SessionThreads : on_peer_connect_call(t)
    \/ \E t \in DOMAIN Ingress \cap SessionThreads : \E message \in ThreadMessages :
           on_peer_event_call(t, message)
    \/ \E t \in DOMAIN Ingress \cap SessionThreads : on_peer_disconnect_call(t)
    \/ \E t \in Egress : \E i \in DOMAIN Ingress \cap SessionThreads :
           next_call(t, Ingress[i])
    \/ \E t \in Consumers : \E message \in ThreadStatusDatas : set_status_call(t, message)
    \/ \E t \in Consumers : \E op \in {"all_peers", "connected_peers"} :
           accessor_call(t, op)

\* What a subscription of the downstream consumer leaves alone.
subscriber_frame ==
    UNCHANGED << handshake_observer, pipe_observer, reply_observer, aux_vars >>

ThreadsNext ==
    \/ thread_call /\ thread_frame
    \/ \E t \in SessionThreads : thread_step(t) /\ thread_frame
    \/ data_subscribe /\ subscriber_frame
    \/ data_unsubscribe /\ subscriber_frame
    \/ peers_status_subscribe /\ subscriber_frame
    \/ peers_status_unsubscribe /\ subscriber_frame

SpecThreads == Init /\ [][ThreadsNext]_vars

\* SpecLocks: the handlers that hold one lock while they ask for another
\* (setup_peer, the Status arm, teardown_peer) for two peers, with set_status
\* and the read accessors of the downstream consumer, where every task that
\* can take a step takes one: a thread that runs is scheduled, and a parked
\* thread is woken when its lock is handed to it.
LockThreads == {"in1", "in2", "api"}

\* The peers send the Status that passes.
LockMessages ==
    {message \in ThreadMessages :
        from_usize(message.id) = Some("Status") /\ rlp_decode(message.data).ok}

lock_call ==
    \/ \E t \in DOMAIN Ingress \cap LockThreads : on_peer_connect_call(t)
    \/ \E t \in DOMAIN Ingress \cap LockThreads : \E message \in LockMessages :
           on_peer_event_call(t, message)
    \/ \E t \in DOMAIN Ingress \cap LockThreads : on_peer_disconnect_call(t)
    \/ \E t \in Consumers : \E message \in ThreadStatusDatas : set_status_call(t, message)
    \/ \E t \in Consumers : \E op \in {"all_peers", "connected_peers"} :
           accessor_call(t, op)

lock_step(t) ==
    \/ rwlock_park(t) /\ UNCHANGED peer_id_cache /\ local_step
    \/ rwlock_acquire(t) /\ UNCHANGED peer_id_cache /\ local_step
    \/ get_hash_read(t) /\ local_step
    \/ get_hash_write(t) /\ local_step
    \/ on_peer_connect_first_events(t)
    \/ on_peer_connect_setup(t)
    \/ handle_event_valid_peer(t)
    \/ handle_event_status(t)
    \/ teardown_peer_pipes(t)
    \/ teardown_peer_tracker(t)
    \/ teardown_peer_valid(t)
    \/ teardown_peer_send(t)
    \/ set_status_write(t)
    \/ set_status_store(t)
    \/ all_peers_read(t)
    \/ connected_peers_read(t)

LocksNext ==
    \/ lock_call /\ thread_frame
    \/ \E t \in LockThreads : lock_step(t) /\ thread_frame

SpecLocks ==
    /\ Init /\ [][LocksNext]_vars
    /\ \A t \in LockThreads : WF_vars(lock_step(t) /\ thread_frame)

\* ------------------------------------------------------------ peer_id.rs
\* A number as len bytes, most significant first, and back.
RECURSIVE to_be_bytes(_, _)
to_be_bytes(n, len) ==
    IF len = 0 THEN <<>> ELSE Append(to_be_bytes(n \div 256, len - 1), n % 256)

RECURSIVE from_be_bytes(_)
from_be_bytes(bytes) ==
    IF bytes = <<>> THEN 0
    ELSE 256 * from_be_bytes(SubSeq(bytes, 1, Len(bytes) - 1)) + bytes[Len(bytes)]

\* secp256k1: the points of the curve y^2 = x^3 + 7 over the field.
on_curve(x, y) == (y * y) % FieldOrder = (x * x * x + 7) % FieldOrder

\* secp256k1::PublicKey: the valid public keys.
PublicKeys ==
    {pk \in [x : 0..(FieldOrder - 1), y : 0..(FieldOrder - 1)] : on_curve(pk.x, pk.y)}

\* PublicKey::serialize_uncompressed: the tag, then x and y.
serialize_uncompressed(pk) ==
    << TagUncompressed >> \o to_be_bytes(pk.x, CoordLen) \o to_be_bytes(pk.y, CoordLen)

\* PublicKey::from_slice on an uncompressed encoding: Ok for the tag followed
\* by the coordinates of a point of the curve, Err for anything else.
PublicKey_from_slice(bytes) ==
    LET x == from_be_bytes(SubSeq(bytes, 2, 1 + CoordLen))
        y == from_be_bytes(SubSeq(bytes, 2 + CoordLen, 1 + 2 * CoordLen))
    IN IF /\ Len(bytes) = 1 + 2 * CoordLen
          /\ bytes[1] = TagUncompressed
          /\ x < FieldOrder /\ y < FieldOrder
          /\ on_curve(x, y)
       THEN Ok([x |-> x, y |-> y])
       ELSE Err("InvalidPublicKey")

\* Mutant of peer_id_from_pub_key: the last byte is cut instead of the tag.
peer_id_from_pub_key_cut_last(pk) ==
    SubSeq(serialize_uncompressed(pk), 1, Len(serialize_uncompressed(pk)) - 1)

\* PeerIdPubKey::from_slice(&pk.serialize_uncompressed()[1..])
peer_id_from_pub_key(pk) == Tail(serialize_uncompressed(pk))

\* s[0] = 4; s[1..].copy_from_slice(id.as_bytes()); PublicKey::from_slice(&s)
pub_key_from_peer_id(id) == PublicKey_from_slice(<< TagUncompressed >> \o id)

\* SpecPeerId: a valid public key is converted to a peer id, and the peer id
\* back to a public key.
InitPeerId ==
    /\ InitServer
    /\ round_trip \in {[NoRoundTrip EXCEPT !.pk = Some(pk)] : pk \in PublicKeys}

peer_id_frame ==
    UNCHANGED << server_vars, channel_vars, swarm_vars, handshake_observer,
                 pipe_observer, reply_observer, thread_vars, query_vars >>

to_peer_id ==
    /\ round_trip.id = None
    /\ round_trip' = [round_trip EXCEPT !.id = Some(peer_id_from_pub_key(round_trip.pk[1]))]
    /\ peer_id_frame

to_pub_key ==
    /\ round_trip.id # None /\ round_trip.back = None
    /\ round_trip' = [round_trip EXCEPT !.back = Some(pub_key_from_peer_id(round_trip.id[1]))]
    /\ peer_id_frame

PeerIdNext == to_peer_id \/ to_pub_key

SpecPeerId == InitPeerId /\ [][PeerIdNext]_vars

\* SpecTracker: every sequence of set_block_number and remove_peer calls on a
\* BlockTracker that starts empty.
TrackerPeers == PeerIdHashes \cup {"h3"}

tracker_set_block_number(peer, block, force_create) ==
    /\ block_tracker' = set_block_number(block_tracker, peer, block, force_create)
    /\ UNCHANGED << peer_pipes, status_message, valid_peers, no_new_peers,
                    peer_id_cache, channel_vars, swarm_vars, handshake_observer,
                    pipe_observer, reply_observer, aux_vars >>

tracker_remove_peer(peer) ==
    /\ block_tracker' = remove_peer(block_tracker, peer)
    /\ UNCHANGED << peer_pipes, status_message, valid_peers, no_new_peers,
                    peer_id_cache, channel_vars, swarm_vars, handshake_observer,
                    pipe_observer, reply_observer, aux_vars >>

TrackerNext ==
    \/ \E peer \in TrackerPeers : \E block \in 0..MaxBlock :
           \E force_create \in BOOLEAN :
               tracker_set_block_number(peer, block, force_create)
    \/ \E peer \in TrackerPeers : tracker_remove_peer(peer)

SpecTracker == Init /\ [][TrackerNext]_vars

\* SpecMinBlock: the calls of SpecTracker, and peers_with_min_block asked of
\* every tracker they build, for every block up to one above MaxBlock.
tracker_peers_with_min_block(block) ==
    /\ min_block' = Some([block |-> block,
                          peers |-> peers_with_min_block(block_tracker, block)])
    /\ UNCHANGED << server_vars, channel_vars, swarm_vars, handshake_observer,
                    pipe_observer, reply_observer, thread_vars, peer_id_vars >>

MinBlockNext ==
    \/ \E peer \in TrackerPeers : \E block \in 0..MaxBlock :
           \E force_create \in BOOLEAN :
               tracker_set_block_number(peer, block, force_create)
    \/ \E peer \in TrackerPeers : tracker_remove_peer(peer)
    \/ \E block \in 0..(MaxBlock + 1) : tracker_peers_with_min_block(block)

SpecMinBlock == Init /\ [][MinBlockNext]_vars

\* ------------------------------------------------------------------- claims
Hash(id) == peer_id_hash_from_peer_id(id)
Sends(sent) == {sent[i] : i \in 1..Len(sent)}

\* A PeersReply{peer, event} among the sends of the step just taken.
Replied(peer, event) ==
    \E s \in Sends(peers_status_sent) : s.msg = PeersReply(peer, event)

\* An InboundMessage of the peer among the sends of the step just taken.
Forwarded(peer) == \E s \in Sends(data_sent) : s.msg.peer_id = peer

\* What on_peer_event has produced for the peer and next has not yet returned.
Outbox(id) ==
    (IF Hash(id) \in DOMAIN peer_pipes THEN peer_pipes[Hash(id)].chan ELSE <<>>)
        \o pending[id]

IsStatus(message) == from_usize(message.id) = Some("Status")
IsOtherKnown(message) ==
    from_usize(message.id) # None /\ from_usize(message.id) # Some("Status")
Decodes(message) == rlp_decode(message.data).ok
\* The fork id of the message passes the fork filter that is set right now.
PassesFilter(message) ==
    /\ status_message # None
    /\ fork_filter_validate(status_message[1].fork_filter,
                            rlp_decode(message.data).v.fork_id)

\* The step leaves the pipes of every peer but this one as they are.
OtherPipesUnchanged(id) ==
    /\ DOMAIN peer_pipes' = DOMAIN peer_pipes
    /\ \A o \in DOMAIN peer_pipes : o # Hash(id) => peer_pipes'[o] = peer_pipes[o]
    /\ \A o \in PeerIds : o # id => pending'[o] = pending[o]

\* C1 (I-VALID): in every reachable state, every peer of valid_peers has an
\* entry in peer_pipes.
C1_IValid == valid_peers \subseteq DOMAIN peer_pipes

\* A peer is valid right after another peer was torn down.
C1_Witness ==
    /\ valid_peers # {}
    /\ \E id \in PeerIds : Replied(Hash(id), "Disconnect") /\ session[id] = "idle"

\* C2: a step adds a peer to valid_peers, or sends PeersReply Connect for it,
\* only if it handles an inbound Status of that peer that decodes and whose
\* fork id passes the fork filter of the FullStatusData set at that moment.
C2_OnlyHandshakeAdds ==
    [][\A id \in PeerIds :
          (\/ Hash(id) \notin valid_peers /\ Hash(id) \in valid_peers'
           \/ Replied(Hash(id), "Connect")')
          => \E message \in InboundMessages :
                 /\ on_peer_event(id, message)
                 /\ IsStatus(message) /\ Decodes(message) /\ PassesFilter(message)]_vars

\* A peer has just been added and its Connect sent.
C2_Witness ==
    \E id \in PeerIds : Hash(id) \in valid_peers /\ Replied(Hash(id), "Connect")

\* C3 (B1), as claimed: for a peer that connected while FullStatusData was
\* unset, the events next returns hold the one Disconnect{DisconnectRequested},
\* first, and no InboundMessage of the peer is sent on data_sender, whatever
\* happens afterwards in the session.
C3_RefusedPeerIsNotForwarded ==
    \A id \in PeerIds :
        status_at_connect[id] = "unset"
        => /\ Cardinality({i \in 1..Len(got[id]) :
                              got[id][i] = OutboundDisconnect("DisconnectRequested")}) <= 1
           /\ got[id] # <<>> => got[id][1] = OutboundDisconnect("DisconnectRequested")
           /\ ~\E s \in Sends(data_sent) : s.ok /\ s.msg.peer_id = Hash(id)

\* C4 (I-LIFECYCLE): a step tears a peer down only as the last event of its
\* session, once, and a step sends a downstream event with the peer's id only
\* in a session of the peer, before its teardown.
C4_ILifecycle ==
    [][\A id \in PeerIds :
          /\ Replied(Hash(id), "Disconnect")'
             => /\ session[id] = "connected" /\ session'[id] = "idle"
                /\ Hash(id) \in DOMAIN peer_pipes /\ Hash(id) \notin DOMAIN peer_pipes'
          /\ (Forwarded(Hash(id))' \/ Replied(Hash(id), "Connect")')
             => session[id] = "connected" /\ Hash(id) \in DOMAIN peer_pipes]_vars

\* A peer that was torn down is idle while a message of another peer is forwarded.
C4_Witness ==
    \E id \in PeerIds :
        /\ id \in DOMAIN peer_id_cache /\ session[id] = "idle"
        /\ \E o \in PeerIds : o # id /\ Forwarded(Hash(o))

\* The InboundMessage that forwards this message of the peer, accepted.
ForwardOf(id, message) ==
    << [msg |-> InboundMessage(sentry_MessageId_from(from_usize(message.id)[1]),
                               message.data, Hash(id)),
        ok |-> TRUE] >>

\* C5, as claimed: while the peer is valid and data_sender has a subscriber,
\* every inbound message of the peer with an id from_usize recognises is
\* forwarded exactly once.
C5_EveryKnownIdForwarded ==
    [][\A id \in PeerIds : \A message \in InboundMessages :
          (/\ Hash(id) \in valid_peers /\ data_receivers
           /\ from_usize(message.id) # None
           /\ on_peer_event(id, message))
          => data_sent' = ForwardOf(id, message)]_vars

\* C5, amended: ... every inbound message of the peer with a recognised id
\* other than Status is forwarded exactly once, with its id, data and peer.
C5_OtherKnownIdForwarded ==
    [][\A id \in PeerIds : \A message \in InboundMessages :
          (/\ Hash(id) \in valid_peers /\ data_receivers
           /\ IsOtherKnown(message)
           /\ on_peer_event(id, message))
          => data_sent' = ForwardOf(id, message)]_vars

\* A message of a valid peer has just been forwarded to a subscriber.
C5_Witness ==
    \E s \in Sends(data_sent) :
        s.ok /\ s.msg.peer_id \in valid_peers /\ s.msg.data # <<>> /\ data_receivers

\* C6: a message with an unknown id, and a message that is not Status from a
\* peer that is not valid, is ignored: nothing is sent on either channel, no
\* outbound event is queued for the peer, and peer_pipes, block_tracker,
\* valid_peers and status_message stay as they are.
C6_Ignored ==
    [][\A id \in PeerIds : \A message \in InboundMessages :
          (/\ \/ from_usize(message.id) = None
              \/ Hash(id) \notin valid_peers /\ ~IsStatus(message)
           /\ on_peer_event(id, message))
          => /\ data_sent' = <<>> /\ peers_status_sent' = <<>>
             /\ pending' = pending
             /\ UNCHANGED << peer_pipes, block_tracker, valid_peers, status_message >>]_vars

\* A session in which such a message can be delivered: the peer is connected,
\* not valid, a Status of it was refused and waits in its pipe.
C6_Witness ==
    \E id \in PeerIds :
        /\ swarm_may_deliver(id) /\ Hash(id) \notin valid_peers
        /\ status_seen[id] /\ Outbox(id) # <<>>
        /\ data_sent = <<>> /\ peers_status_sent = <<>>

\* C7: a Status that fails to decode queues Disconnect{ProtocolBreach} on the
\* peer's pipe; one that decodes and whose fork id fails the set fork filter
\* queues Disconnect{UselessPeer}; in both cases the peer is not added to
\* valid_peers, no Connect is sent, and the keys of peer_pipes, the pipes of the
\* other peers and block_tracker stay as they are.
C7_RefusedStatus ==
    [][\A id \in PeerIds : \A message \in InboundMessages :
          (/\ IsStatus(message)
           /\ \/ ~Decodes(message)
              \/ status_message # None /\ ~PassesFilter(message)
           /\ on_peer_event(id, message))
          => /\ Outbox(id)' =
                    Append(Outbox(id),
                           OutboundDisconnect(IF Decodes(message) THEN "UselessPeer"
                                              ELSE "ProtocolBreach"))
             /\ valid_peers' = valid_peers
             /\ peers_status_sent' = <<>>
             /\ OtherPipesUnchanged(id)
             /\ peer_pipes'[Hash(id)].first = peer_pipes[Hash(id)].first
             /\ block_tracker' = block_tracker]_vars

\* Both refusals wait in pipes.
C7_Witness ==
    /\ \E id \in PeerIds :
           \E i \in 1..Len(Outbox(id)) : Outbox(id)[i] = OutboundDisconnect("ProtocolBreach")
    /\ \E id \in PeerIds :
           \E i \in 1..Len(Outbox(id)) : Outbox(id)[i] = OutboundDisconnect("UselessPeer")

\* A fork id every fork filter of the model validates.
CompatibleFork(message) ==
    \A fsd \in FullStatusDatas :
        fork_filter_validate(fsd.fork_filter, rlp_decode(message.data).v.fork_id)

\* The one PeersReply{peer, Connect}, as the step sends it.
ConnectOf(id) ==
    << broadcast_send(peers_status_receivers, PeersReply(Hash(id), "Connect")) >>

\* C8, as claimed: for a peer that connected while FullStatusData was set, the
\* first inbound Status that decodes and carries a compatible fork id inserts
\* the peer into valid_peers and sends exactly one PeersReply{peer, Connect},
\* whatever happened between the connect and the Status.
C8_FirstStatusAlwaysAdmits ==
    [][\A id \in PeerIds : \A message \in InboundMessages :
          (/\ status_at_connect[id] = "set" /\ ~status_seen[id]
           /\ IsStatus(message) /\ Decodes(message) /\ CompatibleFork(message)
           /\ on_peer_event(id, message))
          => /\ Hash(id) \in valid_peers'
             /\ peers_status_sent' = ConnectOf(id)]_vars

\* C8, amended: a Status that decodes inserts the peer and sends exactly one
\* PeersReply{peer, Connect} when FullStatusData is set at the moment the
\* Status is handled and the fork id passes its fork filter; when
\* FullStatusData is unset at that moment the Status is ignored.
C8_StatusAdmitsWhileSet ==
    [][\A id \in PeerIds : \A message \in InboundMessages :
          (IsStatus(message) /\ Decodes(message) /\ on_peer_event(id, message))
          => /\ PassesFilter(message)
                => /\ valid_peers' = valid_peers \cup {Hash(id)}
                   /\ peers_status_sent' = ConnectOf(id)
             /\ status_message = None
                => /\ valid_peers' = valid_peers
                   /\ peers_status_sent' = <<>>
                   /\ Outbox(id)' = Outbox(id)]_vars

\* A peer that connected while FullStatusData was set was admitted at its
\* Status, while the other peer is in a session of its own.
C8_Witness ==
    \E id \in PeerIds :
        /\ status_at_connect[id] = "set" /\ status_seen[id]
        /\ Hash(id) \in valid_peers /\ Replied(Hash(id), "Connect")
        /\ \E o \in PeerIds : o # id /\ session[o] = "connected"

\* C9: when a recognised message that is not Status comes from a valid peer
\* and the send on data_sender fails, status_message becomes None,
\* Disconnect{ClientQuitting} is queued on the peer's pipe, the message is not
\* forwarded, and the pipes and the membership of the other peers stay as they are.
C9_DownstreamGone ==
    [][\A id \in PeerIds : \A message \in InboundMessages :
          (/\ Hash(id) \in valid_peers /\ ~data_receivers
           /\ IsOtherKnown(message)
           /\ on_peer_event(id, message))
          => /\ status_message' = None
             /\ Outbox(id)' = Append(Outbox(id), OutboundDisconnect("ClientQuitting"))
             /\ \A s \in Sends(data_sent') : ~s.ok
             /\ valid_peers' = valid_peers
             /\ OtherPipesUnchanged(id)]_vars

\* The send has just failed: the status is cleared and the Disconnect waits
\* in the pipe of the peer, which is still valid.
C9_Witness ==
    \E id \in PeerIds :
        /\ status_message = None /\ ~no_new_peers
        /\ Hash(id) \in valid_peers
        /\ \E s \in Sends(data_sent) : ~s.ok /\ s.msg.peer_id = Hash(id)
        /\ \E i \in 1..Len(Outbox(id)) : Outbox(id)[i] = OutboundDisconnect("ClientQuitting")

\* The first event of a session: our Status when FullStatusData was set at
\* the connect, Disconnect{DisconnectRequested} otherwise.
IsFirstEvent(event, at_connect) ==
    IF at_connect = "set"
    THEN event.type = "Message" /\ event.message.id = StatusId
    ELSE event = OutboundDisconnect("DisconnectRequested")

\* C10: in a session, the events next has returned, followed by what the
\* pipe still holds, are the first event fixed at on_peer_connect followed by
\* the events on_peer_event produced, in the order it produced them.
C10_PipeOrder ==
    \A id \in PeerIds :
        session[id] = "connected"
        => LET all == got[id] \o peer_pipes[Hash(id)].first \o Outbox(id)
           IN /\ Len(all) = 1 + Len(queued[id])
              /\ IsFirstEvent(all[1], status_at_connect[id])
              /\ SubSeq(all, 2, Len(all)) = queued[id]

\* next has returned the first event and two different events after it.
C10_Witness ==
    \E id \in PeerIds :
        /\ Len(got[id]) >= 3 /\ got[id][2] # got[id][3]
        /\ IsFirstEvent(got[id][1], "set")

\* C11 (I-TRACKER): after every sequence of set_block_number and remove_peer
\* calls from the empty BlockTracker, (I1) a peer maps to block b in
\* block_by_peer iff it is in the bucket peers_by_block[b], for every b, so it
\* is in no other bucket, and (I2) no bucket of peers_by_block is empty.
C11_ITracker ==
    LET block_by_peer == block_tracker.block_by_peer
        peers_by_block == block_tracker.peers_by_block
    IN /\ DOMAIN block_by_peer \subseteq TrackerPeers
       /\ DOMAIN peers_by_block \subseteq 0..MaxBlock
       /\ \A p \in TrackerPeers : \A b \in 0..MaxBlock :
              (p \in DOMAIN block_by_peer /\ block_by_peer[p] = b)
              <=> (b \in DOMAIN peers_by_block /\ p \in peers_by_block[b])
       /\ \A b \in DOMAIN peers_by_block : peers_by_block[b] # {}

\* Two peers share a bucket, a third one has moved to another bucket, and
\* the bucket of block 0 is gone.
C11_Witness ==
    LET peers_by_block == block_tracker.peers_by_block
    IN /\ \E b \in DOMAIN peers_by_block : Cardinality(peers_by_block[b]) = 2
       /\ Cardinality(DOMAIN peers_by_block) = 2
       /\ 0 \notin DOMAIN peers_by_block

\* C12: set_status(message) leaves status_message = Some(message) and
\* no_new_peers false, whatever they were, and leaves peer_pipes,
\* block_tracker, valid_peers and peer_id_cache as they are.
C12_SetStatusFrame ==
    [][\A message \in FullStatusDatas :
          SetStatus(message)
          => /\ status_message' = Some(message)
             /\ no_new_peers' = FALSE
             /\ UNCHANGED << peer_pipes, block_tracker, valid_peers, peer_id_cache >>]_vars

\* A status is set over an older one while a peer is connected and valid:
\* the peer's first event carries another fork id than the status now set.
C12_Witness ==
    /\ status_message # None /\ ~no_new_peers
    /\ \E peer \in valid_peers :
           /\ peer \in DOMAIN peer_pipes /\ peer_pipes[peer].first # <<>>
           /\ rlp_decode(peer_pipes[peer].first[1].message.data).v.fork_id
                  # status_message[1].fork_filter.current
    /\ peer_id_cache # EmptyMap /\ data_sent = <<>>

\* C13: under every interleaving of concurrent get_hash calls, every call
\* returns the hash of its argument, every entry of peer_id_cache maps a key
\* to its hash, and no step removes an entry or changes its value.
C13_GetHashMemo ==
    [][/\ \A t \in Threads :
              (threads[t].op = "get_hash" /\ threads[t].pc = "hash_done")
              => threads[t].value = Some(peer_id_hash_from_peer_id(threads[t].id))
       /\ \A id \in DOMAIN peer_id_cache :
              /\ peer_id_cache[id] = peer_id_hash_from_peer_id(id)
              /\ id \in DOMAIN peer_id_cache'
              /\ peer_id_cache'[id] = peer_id_cache[id]]_vars

\* Two calls with the same key both missed the cache: one has inserted and
\* returns, the other holds the write guard to insert again; a third call
\* hit the cache with the other key.
C13_Witness ==
    \E t, u, v \in Threads :
        /\ threads[t].pc = "hash_done" /\ threads[u].pc = "hash_writing"
        /\ threads[t].id = threads[u].id /\ threads[t].id \in DOMAIN peer_id_cache
        /\ threads[v].pc = "hash_done" /\ threads[v].id # threads[t].id
        /\ t # u /\ u # v /\ t # v

\* C14 (R1): for every valid public key pk, pub_key_from_peer_id of
\* peer_id_from_pub_key(pk) succeeds and gives pk back; the peer id is the
\* encoding of pk without its tag byte.
C14_RoundTrip ==
    /\ round_trip.id # None
       => << TagUncompressed >> \o round_trip.id[1]
              = serialize_uncompressed(round_trip.pk[1])
    /\ round_trip.back # None => round_trip.back[1] = Ok(round_trip.pk[1])

\* A key with two different coordinates, none of them zero, came back.
C14_Witness ==
    /\ round_trip.back # None /\ round_trip.back[1].tag = "Ok"
    /\ round_trip.pk[1].x # round_trip.pk[1].y
    /\ round_trip.pk[1].x > 0 /\ round_trip.pk[1].y > 0
    /\ Len(round_trip.id[1]) = 2 * CoordLen

\* The PeersReply events of the observed peer a step handed to
\* peers_status_sender, in order.
RepliesOf(sent) ==
    SelectSeq(sent, LAMBDA r : r.msg.peer_id = peer_id_hash_from_peer_id(ObservedPeer))

\* C18, as the code has it: a step sends at most one PeersReply for P; a
\* Connect is sent only while P is connected and leaves P valid, once for
\* every Status of P that passes; a Disconnect is sent at every teardown of P
\* and only there, whether or not P became valid.  So the last PeersReply of a
\* valid peer is a Connect, and after a teardown it is a Disconnect until P
\* connects and passes a Status again.
C18_ReplyFollowsLifecycle ==
    [][LET P == peer_id_hash_from_peer_id(ObservedPeer)
           mine == RepliesOf(peers_status_sent')
           ends == session[ObservedPeer] = "connected" /\ session'[ObservedPeer] = "idle"
       IN /\ Len(mine) <= 1
          /\ \A i \in 1..Len(mine) :
                 /\ mine[i].msg.event = "Connect"
                    => session[ObservedPeer] = "connected" /\ ~ends /\ P \in valid_peers'
                 /\ mine[i].msg.event = "Disconnect"
                    => ends /\ P \notin valid_peers' /\ P \notin DOMAIN peer_pipes'
          /\ ends => Len(mine) = 1
          /\ P \in valid_peers /\ P \notin valid_peers' => ends
          /\ P \in valid_peers' => last_reply'[ObservedPeer] = "Connect"
          /\ session'[ObservedPeer] = "idle"
                 => last_reply'[ObservedPeer] \in {"-", "Disconnect"}]_vars

\* A subscriber took the Disconnect of a torn down peer.
C18_Witness ==
    /\ session[ObservedPeer] = "idle"
    /\ last_reply[ObservedPeer] = "Disconnect"
    /\ RepliesOf(peers_status_sent) # <<>>
    /\ \A i \in 1..Len(RepliesOf(peers_status_sent)) : RepliesOf(peers_status_sent)[i].ok

\* C18 as stated: the PeersReply events of P that a subscriber takes alternate
\* strictly: a Connect follows nothing or a Disconnect, a Disconnect follows a
\* Connect.
C18_StrictAlternation ==
    [][\A i \in 1..Len(RepliesOf(peers_status_sent')) :
           LET r == RepliesOf(peers_status_sent')[i]
           IN r.ok =>
                 /\ r.msg.event = "Connect"
                    => last_reply[ObservedPeer] \in {"-", "Disconnect"}
                 /\ r.msg.event = "Disconnect"
                    => last_reply[ObservedPeer] = "Connect"]_vars

\* The reasons handle_event returns as errors.
ProducedReasons == {"ProtocolBreach", "UselessPeer", "ClientQuitting"}

\* The i-th event on_peer_event produced in this session is a Disconnect
\* with this reason.
ProducedDisconnect(i, reason) ==
    /\ session[ObservedPeer] = "connected"
    /\ Len(queued[ObservedPeer]) >= i
    /\ queued[ObservedPeer][i] = OutboundDisconnect(reason)

\* next has returned it, after the first event of the session and the events
\* produced before it, in their order.
ReturnedDisconnect(i, reason) ==
    /\ session[ObservedPeer] = "connected"
    /\ Len(got[ObservedPeer]) >= 1 + i
    /\ got[ObservedPeer][1 + i] = OutboundDisconnect(reason)
    /\ SubSeq(got[ObservedPeer], 2, i) = SubSeq(queued[ObservedPeer], 1, i - 1)

\* C19: when on_peer_event has produced a Disconnect with a reason for P,
\* then, unless the session ends first (next is polled only while it lasts),
\* next returns a Disconnect with that reason after every event produced
\* before it; and an on_peer_event that waits for room in the channel does
\* not wait forever.
C19_DisconnectReturned ==
    /\ \A reason \in ProducedReasons : \A i \in 1..MaxQueued :
           ProducedDisconnect(i, reason)
               ~> (ReturnedDisconnect(i, reason) \/ session[ObservedPeer] = "idle")
    /\ (pending[ObservedPeer] # None) ~> (pending[ObservedPeer] = None)

\* ClientQuitting was produced second, while ProtocolBreach filled the
\* channel, and next has returned both after the first event.
C19_Witness ==
    /\ ProducedDisconnect(2, "ClientQuitting")
    /\ ProducedDisconnect(1, "ProtocolBreach")
    /\ ReturnedDisconnect(2, "ClientQuitting")
    /\ Len(got[ObservedPeer]) = 3

\* The task asks for the lock; the task holds it.
Requests(t, l) == wants(t).lock = l
Holds(t, l) == t \in locks[l].holders

\* The task cannot get the lock it asks for.
Blocked(t) == wants(t) # NoLock /\ ~may_lock(wants(t).lock, wants(t).mode, t)

lock_order == << "peer_pipes", "block_tracker", "valid_peers", "status_message",
                 "peer_id_cache" >>

Rank(l) == CHOOSE i \in 1..Len(lock_order) : lock_order[i] = l

\* C15: a task that holds several of the locks took them in the order
\* peer_pipes, block_tracker, valid_peers, status_message, peer_id_cache.
C15_LockOrder ==
    \A t \in SessionThreads :
        \A i, j \in 1..Len(threads[t].held) :
            i < j => Rank(threads[t].held[i]) < Rank(threads[t].held[j])

\* The peer is in peer_pipes and in the block tracker or in neither, and in
\* valid_peers only when it is in both.
InAll(peer) ==
    /\ peer \in DOMAIN peer_pipes <=> peer \in DOMAIN block_tracker.block_by_peer
    /\ peer \in valid_peers => peer \in DOMAIN peer_pipes

InNone(peer) ==
    /\ peer \notin DOMAIN peer_pipes
    /\ peer \notin DOMAIN block_tracker.block_by_peer
    /\ peer \notin valid_peers

\* The task is in teardown_peer for the peer and holds the three write locks.
TearsDown(t, peer) ==
    /\ threads[t].op = "on_peer_disconnect"
    /\ threads[t].value = Some(peer)
    /\ \A i \in 1..Len(teardown_order) :
           locks[teardown_order[i]].holders = {t} /\ locks[teardown_order[i]].mode = "W"

\* C17: whenever a peer is removed from one of peer_pipes, block_tracker and
\* valid_peers and still present in another, a teardown_peer of that peer
\* holds the write locks of all three, so no other task holds any of them;
\* and when teardown_peer returns the peer is in none of the three and the
\* step has sent the one PeersReply Disconnect of the peer, with the same
\* effect whether or not a subscriber took it.
C17_TeardownAtomic ==
    /\ [](\A peer \in PeerIdHashes :
             InAll(peer) \/ \E t \in SessionThreads : TearsDown(t, peer))
    /\ [][\A t \in SessionThreads :
             threads[t].op = "on_peer_disconnect" /\ threads'[t].pc = "idle"
             => \E peer \in PeerIdHashes :
                    /\ peer = peer_of(t)
                    /\ InNone(peer)'
                    /\ \E took \in BOOLEAN :
                           peers_status_sent'
                               = << [msg |-> PeersReply(peer, "Disconnect"),
                                     ok |-> took] >>
                    /\ \A l \in Locks : t \notin locks'[l].holders]_vars

\* A valid peer is out of peer_pipes and still in valid_peers, under the
\* write locks of its teardown, while all_peers waits for peer_pipes and next
\* waits to look up its receiver.
C17_Witness ==
    \E peer \in PeerIdHashes :
        /\ peer \notin DOMAIN peer_pipes /\ peer \in valid_peers
        /\ TearsDown("in1", peer)
        /\ Queued("peer_pipes", "api") /\ Queued("peer_pipes", "out")

\* C20: no assertion and no unwrap of the pipe bookkeeping fails: setup_peer
\* finds no pipes of the peer, on_peer_event finds the sender of the peer and
\* next finds its receiver.
C20_NoPipePanic == ~panicked

\* The bucket of a block: empty when peers_by_block has no such key.
Bucket(tracker, block) ==
    IF block \in DOMAIN tracker.peers_by_block
    THEN tracker.peers_by_block[block]
    ELSE {}

\* C22: set_block_number(peer, block, force_create) leaves the tracker as it
\* is when the peer is absent and force_create is false; otherwise afterwards
\* block_by_peer[peer] = block, the peer is in the bucket of block and in no
\* other, no bucket is empty, and the entry and the bucket membership of
\* every other peer are what they were; setting a present peer to the block
\* it has changes nothing.  The calls (P, 10, true), (P, 10, false),
\* (P, 12, false) on the empty tracker leave peers_by_block = {12: {P}} and
\* block_by_peer = {P: 12}.
C22_SetBlockNumber ==
    [][/\ set_block_number(
              set_block_number(
                  set_block_number(EmptyTracker, "h1", 10, TRUE), "h1", 10, FALSE),
              "h1", 12, FALSE)
          = [block_by_peer |-> MapInsert(EmptyMap, "h1", 12),
             peers_by_block |-> MapInsert(EmptyMap, 12, {"h1"})]
       /\ \A peer \in TrackerPeers : \A block \in 0..MaxBlock :
              \A force_create \in BOOLEAN :
                  tracker_set_block_number(peer, block, force_create)
                  => LET old == block_tracker
                         new == block_tracker'
                         present == peer \in DOMAIN old.block_by_peer
                     IN IF ~present /\ ~force_create
                        THEN new = old
                        ELSE /\ DOMAIN new.block_by_peer
                                    = DOMAIN old.block_by_peer \cup {peer}
                             /\ new.block_by_peer[peer] = block
                             /\ \A b \in 0..MaxBlock :
                                    peer \in Bucket(new, b) <=> b = block
                             /\ \A b \in DOMAIN new.peers_by_block :
                                    new.peers_by_block[b] # {}
                             /\ present
                                => (old.block_by_peer[peer] \in DOMAIN new.peers_by_block
                                    <=> Bucket(old, old.block_by_peer[peer]) \ {peer} # {}
                                        \/ old.block_by_peer[peer] = block)
                             /\ \A q \in DOMAIN old.block_by_peer \ {peer} :
                                    new.block_by_peer[q] = old.block_by_peer[q]
                             /\ \A b \in 0..MaxBlock :
                                    Bucket(new, b) \ {peer} = Bucket(old, b) \ {peer}
                             /\ (present /\ old.block_by_peer[peer] = block)
                                => new = old]_vars

\* One peer was moved out of the bucket it shared with another, which stays;
\* the third was moved out of its own bucket, which is gone.
C22_Witness ==
    /\ block_tracker.block_by_peer = [p \in TrackerPeers |->
                                          IF p = "h3" THEN 0 ELSE MaxBlock]
    /\ DOMAIN block_tracker.peers_by_block = {0, MaxBlock}

\* C25: on every tracker that satisfies I1 and I2, for every block b,
\* peers_with_min_block(b) returns exactly the peers p with
\* block_by_peer[p] >= b, which is the union of the buckets with key >= b, and
\* leaves the tracker as it is.
C25_PeersWithMinBlock ==
    [][\A block \in 0..(MaxBlock + 1) :
          tracker_peers_with_min_block(block)
          => /\ C11_ITracker
             /\ min_block'[1].peers
                    = {p \in DOMAIN block_tracker.block_by_peer :
                           block_tracker.block_by_peer[p] >= block}
             /\ min_block'[1].peers
                    = UNION {Bucket(block_tracker, b) : b \in block..MaxBlock}
             /\ block_tracker' = block_tracker]_vars

\* Three peers at three blocks, asked for the middle one: the answer has the
\* peers of two buckets and not the third.
C25_Witness ==
    /\ min_block # None
    /\ Cardinality(DOMAIN block_tracker.peers_by_block) = 3
    /\ min_block[1].block \in DOMAIN block_tracker.peers_by_block
    /\ Cardinality(min_block[1].peers) = 2
    /\ min_block[1].peers
           = {p \in TrackerPeers : block_tracker.block_by_peer[p] >= min_block[1].block}

\* C24: no_new_peers starts true and no step sets it to true: the only steps
\* that change it are set_status calls, which store false, so once it is
\* false it stays false; a failed data_sender send clears status_message and
\* leaves no_new_peers as it is; a peer that connects while status_message is
\* unset gets Disconnect{DisconnectRequested} as its first event.
C24_NoNewPeersNeverRaised ==
    /\ no_new_peers = TRUE
    /\ [][/\ ~no_new_peers => ~no_new_peers'
          /\ no_new_peers' # no_new_peers
             => \E message \in FullStatusDatas : SetStatus(message)
          /\ \A message \in FullStatusDatas :
                 SetStatus(message) => no_new_peers' = FALSE
          /\ (status_message # None /\ status_message' = None)
             => /\ no_new_peers' = no_new_peers
                /\ \E sent \in Sends(data_sent') : ~sent.ok
          /\ \A id \in PeerIds :
                 (status_message = None /\ on_peer_connect(id))
                 => peer_pipes'[Hash(id)].first
                        = << OutboundDisconnect("DisconnectRequested") >>]_vars

\* status_message was cleared after set_status had run, and a peer has
\* connected since: its first event is the Disconnect.
C24_Witness ==
    /\ status_message = None /\ ~no_new_peers
    /\ \E id \in PeerIds :
           /\ session[id] = "connected"
           /\ Hash(id) \in DOMAIN peer_pipes
           /\ peer_pipes[Hash(id)].first = << OutboundDisconnect("DisconnectRequested") >>

\* No setup_peer and no teardown_peer is under way: no task holds the write
\* guard of peer_pipes or of block_tracker.
Quiet ==
    \A l \in {"peer_pipes", "block_tracker"} : locks[l].mode # "W"

Tracked == DOMAIN block_tracker.block_by_peer

\* C21: whenever no setup_peer or teardown_peer is under way, the peers with
\* a block tracker entry are the keys of peer_pipes; on_peer_connect(P)
\* creates the entry of P, at block 0, with P not in valid_peers, and is the
\* only step that creates an entry; the entry of P goes at the teardown of P
\* and at no other step.
C21_TrackerFollowsPipes ==
    /\ [](Quiet => Tracked = DOMAIN peer_pipes)
    /\ [][/\ \A t \in LockThreads :
                 (threads[t].pc = "setup_locked" /\ on_peer_connect_setup(t))
                 => \E peer \in PeerIdHashes :
                        /\ peer = peer_of(t)
                        /\ peer \notin Tracked /\ peer \in Tracked'
                        /\ block_tracker'.block_by_peer[peer] = 0
                        /\ peer \in Bucket(block_tracker', 0)
                        /\ peer \notin valid_peers'
          /\ \A t \in LockThreads :
                 (threads[t].pc = "teardown_tracker" /\ teardown_peer_tracker(t))
                 => \E peer \in PeerIdHashes :
                        /\ peer = peer_of(t)
                        /\ peer \in Tracked /\ peer \notin Tracked'
          /\ \A peer \in PeerIdHashes :
                 /\ (peer \notin Tracked /\ peer \in Tracked')
                    => \E t \in LockThreads :
                           /\ threads[t].pc = "setup_locked" /\ peer_of(t) = peer
                           /\ on_peer_connect_setup(t)
                 /\ (peer \in Tracked /\ peer \notin Tracked')
                    => \E t \in LockThreads :
                           /\ threads[t].pc = "teardown_tracker" /\ peer_of(t) = peer
                           /\ teardown_peer_tracker(t)]_vars

\* The teardown of one peer has just returned, with no setup or teardown
\* under way: its entry is gone with its pipes, and the other peer, connected
\* and not yet valid, is tracked at block 0.
C21_Witness ==
    /\ Quiet
    /\ \E took \in BOOLEAN :
           peers_status_sent = << [msg |-> PeersReply("h2", "Disconnect"), ok |-> took] >>
    /\ DOMAIN peer_pipes = {"h1"} /\ Tracked = {"h1"}
    /\ block_tracker.block_by_peer["h1"] = 0
    /\ block_tracker.peers_by_block = MapInsert(EmptyMap, 0, {"h1"})
    /\ "h1" \notin valid_peers

\* The task is at a suspension point: the .send(event).await of on_peer_event,
\* or the .lock().await and .next().await of next.
Suspended(t) == threads[t].pc \in {"event_send", "next_poll"}

\* C23: a task at a suspension point holds none of the locks peer_pipes,
\* block_tracker, valid_peers, status_message and peer_id_cache, and waits
\* for none: the guards it took were dropped before the await.
C23_NoLockAcrossAwait ==
    \A t \in SessionThreads :
        Suspended(t)
        => /\ threads[t].held = <<>>
           /\ \A l \in Locks : ~Holds(t, l) /\ ~Queued(l, t)

\* on_peer_event waits at its send for room in the peer's channel while next
\* is at its poll and the consumer holds status_message.
C23_Witness ==
    /\ threads["in1"].pc = "event_send"
    /\ peer_of("in1") \in DOMAIN peer_pipes
    /\ ~channel_has_room(peer_pipes[peer_of("in1")])
    /\ threads["out"].pc = "next_poll"
    /\ Holds("api", "status_message")

====
